---- MODULE Spec2Model ----
(***************************************************************************)
(* Connect Four rules engine (src/lib/game-logic.ts) and the move          *)
(* validation of GameService (services/game-service), as a state machine.  *)
(*                                                                         *)
(* A client holds one GameState.  An "engine" client calls makeMove        *)
(* directly; a "service" client is a game stored by GameService and played *)
(* through GameService.executeMove (validateMove, then makeMove).          *)
(***************************************************************************)
EXTENDS Integers, Sequences, FiniteSets, TLC

ROWS == 6
COLS == 7
WINNING_LENGTH == 4

\* Number of successful moves explored after an opening.
MaxMoves == 2

\* Cell / winner values: Player | null.
Null == "null"
Player == {"red", "yellow"}

\* position: null and winningLine: null of the result types.
NoPos == [row |-> -1, col |-> -1]
NoLine == <<>>

RowIdx == 0 .. (ROWS - 1)
ColIdx == 0 .. (COLS - 1)
Pos(r, c) == [row |-> r, col |-> c]

\* Column arguments a caller may pass: every column and one index beyond
\* each edge of the board.
ColumnInputs == -1 .. COLS

createEmptyBoard == [r \in RowIdx |-> [c \in ColIdx |-> Null]]

createInitialGameState ==
  [board |-> createEmptyBoard,
   currentPlayer |-> "red",
   winner |-> Null,
   isDraw |-> FALSE,
   isGameOver |-> FALSE,
   moveCount |-> 0,
   status |-> "waiting",
   winningLine |-> NoLine]

boardAfterReadCleared(board) == [board EXCEPT ![ROWS - 1] = [c \in ColIdx |-> Null]]

\* The board a caller holds after isValidMove, getValidMoves or checkWin has
\* returned: none of them assigns to a cell.
boardAfterRead(board) == board

isValidMove(board, col) ==
  col >= 0 /\ col < COLS /\ board[0][col] = Null

\* Variant of getValidMoves that tests the bottom cell of each column.
getValidMovesBottomRow(board) ==
  SelectSeq([i \in 1 .. COLS |-> i - 1],
            LAMBDA col : col >= 0 /\ col < COLS /\ board[ROWS - 1][col] = Null)

getValidMoves(board) ==
  SelectSeq([i \in 1 .. COLS |-> i - 1], LAMBDA col : isValidMove(board, col))

\* Variant of directions that lists the horizontal direction twice.
directionsNoVertical == << <<0, 1>>, <<0, 1>>, <<1, 1>>, <<1, -1>> >>

directionsDiagonalsFirst == << <<1, -1>>, <<1, 1>>, <<1, 0>>, <<0, 1>> >>

\* The four line directions of checkWin, in scan order.
directions == << <<0, 1>>, <<1, 0>>, <<1, 1>>, <<1, -1>> >>

\* The break condition of the two scanning loops, negated: the cell i steps
\* from lastMove along sign * (dr, dc) is on the board and holds player.
cellMatches(board, lastMove, dr, dc, sign, i, player) ==
  LET r == lastMove.row + sign * dr * i
      c == lastMove.col + sign * dc * i
  IN  ~(r < 0 \/ r >= ROWS \/ c < 0 \/ c >= COLS) /\ board[r][c] = player

\* Variant of scanLength that never scans the negative side.
scanLengthForwardOnly(board, lastMove, dr, dc, sign, player) ==
  LET ok(k) == \A i \in 1 .. k : cellMatches(board, lastMove, dr, dc, sign, i, player)
  IN  IF sign < 0 THEN 0
      ELSE CHOOSE k \in 0 .. (WINNING_LENGTH - 1) :
             /\ ok(k)
             /\ (k < WINNING_LENGTH - 1 => ~ok(k + 1))

\* Number of iterations a scanning loop completes before its break (or before
\* i reaches WINNING_LENGTH).
scanLength(board, lastMove, dr, dc, sign, player) ==
  LET ok(k) == \A i \in 1 .. k : cellMatches(board, lastMove, dr, dc, sign, i, player)
  IN  CHOOSE k \in 0 .. (WINNING_LENGTH - 1) :
        /\ ok(k)
        /\ (k < WINNING_LENGTH - 1 => ~ok(k + 1))

\* Variant of scanLine that appends the cells of the negative side after the
\* others instead of putting them in front.
scanLineFromPlaced(board, lastMove, dr, dc) ==
  LET player == board[lastMove.row][lastMove.col]
      np == scanLength(board, lastMove, dr, dc, 1, player)
      nn == scanLength(board, lastMove, dr, dc, -1, player)
  IN  [j \in 1 .. (nn + 1 + np) |->
         Pos(lastMove.row + dr * (j - 1), lastMove.col + dc * (j - 1))]

\* Variant of scanLine that reports only the first WINNING_LENGTH cells.
scanLineTruncated(board, lastMove, dr, dc) ==
  LET player == board[lastMove.row][lastMove.col]
      np == scanLength(board, lastMove, dr, dc, 1, player)
      nn == scanLength(board, lastMove, dr, dc, -1, player)
      n == IF nn + 1 + np > WINNING_LENGTH THEN WINNING_LENGTH ELSE nn + 1 + np
  IN  [j \in 1 .. n |->
         Pos(lastMove.row + dr * (j - nn - 1), lastMove.col + dc * (j - nn - 1))]

\* Variant of scanLine in which the negative loop pushes its cells too.
scanLinePushedOnly(board, lastMove, dr, dc) ==
  LET player == board[lastMove.row][lastMove.col]
      np == scanLength(board, lastMove, dr, dc, 1, player)
      nn == scanLength(board, lastMove, dr, dc, -1, player)
  IN  [j \in 1 .. (nn + 1 + np) |->
         IF j <= np + 1
           THEN Pos(lastMove.row + dr * (j - 1), lastMove.col + dc * (j - 1))
           ELSE Pos(lastMove.row - dr * (j - np - 1),
                    lastMove.col - dc * (j - np - 1))]

\* The line built for one direction: the cells pushed by the positive loop
\* after lastMove, the cells unshifted by the negative loop before it.
scanLine(board, lastMove, dr, dc) ==
  LET player == board[lastMove.row][lastMove.col]
      np == scanLength(board, lastMove, dr, dc, 1, player)
      nn == scanLength(board, lastMove, dr, dc, -1, player)
  IN  [j \in 1 .. (nn + 1 + np) |->
         Pos(lastMove.row + dr * (j - nn - 1), lastMove.col + dc * (j - nn - 1))]

RECURSIVE checkWinFrom(_, _, _)
checkWinFrom(board, lastMove, d) ==
  IF d > Len(directions)
    THEN [isWin |-> FALSE, winningLine |-> NoLine]
    ELSE LET line == scanLine(board, lastMove, directions[d][1], directions[d][2])
         IN  IF Len(line) >= WINNING_LENGTH
               THEN [isWin |-> TRUE, winningLine |-> line]
               ELSE checkWinFrom(board, lastMove, d + 1)

checkWin(board, lastMove) ==
  IF board[lastMove.row][lastMove.col] = Null
    THEN [isWin |-> FALSE, winningLine |-> NoLine]
    ELSE checkWinFrom(board, lastMove, 1)

\* Variant of otherPlayer that leaves the turn with the mover.
samePlayer(p) == p

\* The turn passes to the other colour.
otherPlayer(p) == IF p = "red" THEN "yellow" ELSE "red"

\* Variant of findRow that scans from row 0 downward.
findRowTopmost(board, col) ==
  LET free == {r \in RowIdx : board[r][col] = Null}
  IN  CHOOSE r \in free : \A q \in free : q >= r

\* The row makeMove finds: the first of ROWS-1, ..., 0 whose cell is empty.
findRow(board, col) ==
  LET free == {r \in RowIdx : board[r][col] = Null}
  IN  CHOOSE r \in free : \A q \in free : q <= r

\* The copy of the board with the mover's piece written to it.
placePiece(board, row, col, player) ==
  [board EXCEPT ![row][col] = player]

\* Variant of rejectedMove that passes the turn on a refused move.
rejectedMoveTurnPassed(gameState) ==
  [gameState |-> [gameState EXCEPT !.currentPlayer =
                                     IF @ = "red" THEN "yellow" ELSE "red"],
   position |-> NoPos, input |-> gameState]

\* The early returns of makeMove: the state that was passed in, no position.
\* input is the value of the state object that was passed in, as the caller
\* sees it after the call.
rejectedMove(gameState) ==
  [gameState |-> gameState, position |-> NoPos, input |-> gameState]

\* Variant of isDrawAfter that does not look at the win.
isDrawOnFullBoard(winResult, newBoard) == Len(getValidMoves(newBoard)) = 0

\* Variant of isDrawAfter that never reports a draw.
isDrawNever(winResult, newBoard) == FALSE

isDrawAfter(winResult, newBoard) ==
  ~winResult.isWin /\ Len(getValidMoves(newBoard)) = 0

\* Variant of isGameOverAfter that ends the game on a win only.
isGameOverOnWin(winResult, isDraw) == winResult.isWin

isGameOverAfter(winResult, isDraw) == winResult.isWin \/ isDraw

\* Variant of winnerAfter that names the player whose turn comes next.
winnerIsNextPlayer(winResult, player) ==
  IF winResult.isWin THEN otherPlayer(player) ELSE Null

winnerAfter(winResult, player) == IF winResult.isWin THEN player ELSE Null

\* Variant of statusAfter that keeps the initial status while the game runs.
statusStaysWaiting(winResult, isDraw) ==
  IF winResult.isWin THEN "won" ELSE IF isDraw THEN "draw" ELSE "waiting"

statusAfter(winResult, isDraw) ==
  IF winResult.isWin THEN "won" ELSE IF isDraw THEN "draw" ELSE "playing"

\* Variant of moveCountAfter that does not count the move.
moveCountKept(gameState) == gameState.moveCount

moveCountAfter(gameState) == gameState.moveCount + 1

\* Variant of inputAfterMove in which newBoard shares its rows with the board
\* of the state passed in.
inputAfterMoveShared(gameState, newBoard) == [gameState EXCEPT !.board = newBoard]

\* The state object passed in, after an accepted move: newBoard is a copy
\* row by row and the returned state a new object, so nothing is written to it.
inputAfterMove(gameState, newBoard) == gameState

makeMove(gameState, col) ==
  IF ~isValidMove(gameState.board, col)
    THEN rejectedMove(gameState)
  ELSE IF {r \in RowIdx : gameState.board[r][col] = Null} = {}
    THEN rejectedMove(gameState)
  ELSE
    LET row == findRow(gameState.board, col)
        newBoard == placePiece(gameState.board, row, col, gameState.currentPlayer)
        newPosition == Pos(row, col)
        winResult == checkWin(newBoard, newPosition)
        isDraw == isDrawAfter(winResult, newBoard)
    IN  [gameState |->
           [board |-> newBoard,
            currentPlayer |-> otherPlayer(gameState.currentPlayer),
            winner |-> winnerAfter(winResult, gameState.currentPlayer),
            isDraw |-> isDraw,
            isGameOver |-> isGameOverAfter(winResult, isDraw),
            moveCount |-> moveCountAfter(gameState),
            status |-> statusAfter(winResult, isDraw),
            winningLine |-> winResult.winningLine],
         position |-> newPosition,
         input |-> inputAfterMove(gameState, newBoard)]

\* GameService.validateMove: the message of the ValidationError it throws,
\* or NoError when it returns.
NoError == "none"

validateMove(game, column, player) ==
  IF game.isGameOver THEN "Game is already over"
  ELSE IF game.currentPlayer # player THEN "Not your turn"
  ELSE IF ~isValidMove(game.board, column)
    THEN "Invalid move - column is full or out of bounds"
  ELSE IF column < 0 \/ column > 6 THEN "Column must be between 0 and 6"
  ELSE NoError

\* GameService.executeMove on the stored game: the game row after the call,
\* the position of the move record, and the error thrown.
executeMove(game, column, player) ==
  LET err == validateMove(game, column, player)
      moveResult == makeMove(game, column)
  IN  IF err # NoError
        THEN [gameState |-> game, position |-> NoPos, input |-> game, error |-> err]
      ELSE IF moveResult.position = NoPos
        THEN [gameState |-> game, position |-> NoPos, input |-> game,
              error |-> "Invalid move"]
      ELSE [gameState |-> moveResult.gameState, position |-> moveResult.position,
            input |-> moveResult.input, error |-> NoError]

(***************************************************************************)
(* AIService (src/lib/services/ai-service.ts).  The AI plays yellow.       *)
(* confidence is kept in hundredths: 1.0 is 100, and score / 100 is score. *)
(***************************************************************************)
Difficulty == {"easy", "medium", "hard"}

\* Stands for Infinity: larger than the absolute value of every score.
Infinity == 1000000

Max(a, b) == IF a >= b THEN a ELSE b
Min(a, b) == IF a <= b THEN a ELSE b

SeqToSet(seq) == {seq[i] : i \in 1 .. Len(seq)}

evaluateLine(pos1, pos2, pos3, pos4) ==
  LET one(pos, player) == IF pos = player THEN 1 ELSE 0
      count(player) == one(pos1, player) + one(pos2, player)
                       + one(pos3, player) + one(pos4, player)
      yellowCount == count("yellow")
      redCount == count("red")
      emptyCount == count(Null)
  IN  IF yellowCount > 0 /\ redCount > 0 THEN 0
      ELSE IF yellowCount = 3 /\ emptyCount = 1 THEN 50
      ELSE IF yellowCount = 2 /\ emptyCount = 2 THEN 10
      ELSE IF yellowCount = 1 /\ emptyCount = 3 THEN 1
      ELSE IF redCount = 3 /\ emptyCount = 1 THEN -50
      ELSE IF redCount = 2 /\ emptyCount = 2 THEN -10
      ELSE IF redCount = 1 /\ emptyCount = 3 THEN -1
      ELSE 0

evaluatedWindowsFromRow4 ==
  {<<row, col, 0, 1>> : row \in RowIdx, col \in 0 .. COLS - 4}
  \cup {<<row, col, 1, 0>> : row \in 0 .. ROWS - 4, col \in ColIdx}
  \cup {<<row, col, 1, 1>> : row \in 0 .. ROWS - 4, col \in 0 .. COLS - 4}
  \cup {<<row, col, -1, 1>> : row \in 4 .. ROWS - 1, col \in 0 .. COLS - 4}

\* The lines evaluateBoard visits, as <<row, col, dr, dc>>: start cell and step.
evaluatedWindows ==
  {<<row, col, 0, 1>> : row \in RowIdx, col \in 0 .. COLS - 4}
  \cup {<<row, col, 1, 0>> : row \in 0 .. ROWS - 4, col \in ColIdx}
  \cup {<<row, col, 1, 1>> : row \in 0 .. ROWS - 4, col \in 0 .. COLS - 4}
  \cup {<<row, col, -1, 1>> : row \in 3 .. ROWS - 1, col \in 0 .. COLS - 4}

lineScore(board, w) ==
  evaluateLine(board[w[1]][w[2]],
               board[w[1] + w[3]][w[2] + w[4]],
               board[w[1] + 2 * w[3]][w[2] + 2 * w[4]],
               board[w[1] + 3 * w[3]][w[2] + 3 * w[4]])

\* Center column control: +3 per yellow piece, -3 per red piece in column 3.
centerScore(board) ==
  3 * Cardinality({row \in RowIdx : board[row][3] = "yellow"})
  - 3 * Cardinality({row \in RowIdx : board[row][3] = "red"})

\* score after both loops: the sum of evaluateLine over the lines, taken
\* value by value, on top of the center column score.
evaluateBoard(gameState) ==
  LET board == gameState.board
      scoreOf == [w \in evaluatedWindows |-> lineScore(board, w)]
      n(v) == Cardinality({w \in evaluatedWindows : scoreOf[w] = v})
  IN  centerScore(board)
      + 50 * n(50) + 10 * n(10) + n(1) - n(-1) - 10 * n(-10) - 50 * n(-50)

prunedWithMargin(alpha, beta) == beta <= alpha + 20

\* The pruning test of both loops of minimax.
pruned(alpha, beta) == beta <= alpha

RECURSIVE minimax(_, _, _, _, _)
RECURSIVE minimaxLoop(_, _, _, _, _, _, _, _)

\* One pass through the body of the for loop of minimax once score is known:
\* the new maxScore / minScore, alpha and beta, and whether the loop breaks.
minimaxUpdate(isMaximizing, best, alpha, beta, score) ==
  [best |-> IF isMaximizing THEN Max(best, score) ELSE Min(best, score),
   alpha |-> IF isMaximizing THEN Max(alpha, score) ELSE alpha,
   beta |-> IF isMaximizing THEN beta ELSE Min(beta, score),
   break |-> IF isMaximizing THEN pruned(Max(alpha, score), beta)
             ELSE pruned(alpha, Min(beta, score))]

\* The body of the for loop of minimax for one column, moveResult being
\* makeMove(gameState, col): continue when it has no position.
minimaxStep(depth, isMaximizing, best, alpha, beta, moveResult) ==
  IF moveResult.position = NoPos
    THEN [best |-> best, alpha |-> alpha, beta |-> beta, break |-> FALSE]
  ELSE minimaxUpdate(isMaximizing, best, alpha, beta,
                     minimax(moveResult.gameState, depth - 1, ~isMaximizing,
                             alpha, beta))

\* After the pass for the i-th valid move: break, or go on with the next.
minimaxRest(gameState, depth, isMaximizing, validMoves, i, step) ==
  IF step.break THEN step.best
  ELSE minimaxLoop(gameState, depth, isMaximizing, validMoves, i + 1,
                   step.best, step.alpha, step.beta)

\* The for loop of minimax from the i-th valid move on, with the running
\* maxScore / minScore in best.
minimaxLoop(gameState, depth, isMaximizing, validMoves, i, best, alpha, beta) ==
  IF i > Len(validMoves) THEN best
  ELSE minimaxRest(gameState, depth, isMaximizing, validMoves, i,
                   minimaxStep(depth, isMaximizing, best, alpha, beta,
                               makeMove(gameState, validMoves[i])))

minimaxDepthFirst(gameState, depth, isMaximizing, alpha, beta) ==
  IF gameState.isDraw \/ depth = 0 THEN evaluateBoard(gameState)
  ELSE IF gameState.winner = "yellow" THEN 1000 + depth
  ELSE IF gameState.winner = "red" THEN -1000 - depth
  ELSE minimaxLoop(gameState, depth, isMaximizing, getValidMoves(gameState.board), 1,
                   IF isMaximizing THEN -Infinity ELSE Infinity, alpha, beta)

minimax(gameState, depth, isMaximizing, alpha, beta) ==
  IF gameState.winner = "yellow" THEN 1000 + depth
  ELSE IF gameState.winner = "red" THEN -1000 - depth
  ELSE IF gameState.isDraw \/ depth = 0 THEN evaluateBoard(gameState)
  ELSE minimaxLoop(gameState, depth, isMaximizing, getValidMoves(gameState.board), 1,
                   IF isMaximizing THEN -Infinity ELSE Infinity, alpha, beta)

checkIfBlocksWin(gameState, column) ==
  LET testState == [gameState EXCEPT !.currentPlayer = "red"]
  IN  makeMove(testState, column).gameState.winner = "red"

isWinningOpportunity(pos1, pos2, pos3, pos4, player) ==
  LET one(pos, v) == IF pos = v THEN 1 ELSE 0
      count(v) == one(pos1, v) + one(pos2, v) + one(pos3, v) + one(pos4, v)
      playerCount == count(player)
      emptyCount == count(Null)
      opponentCount == count(IF player = "red" THEN "yellow" ELSE "red")
  IN  playerCount >= 2 /\ emptyCount >= 1 /\ opponentCount = 0

countWinningOpportunities(gameState, player) ==
  LET board == gameState.board
  IN  Cardinality({rc \in RowIdx \X ColIdx :
                     /\ rc[2] <= COLS - 4
                     /\ isWinningOpportunity(board[rc[1]][rc[2]], board[rc[1]][rc[2] + 1],
                                             board[rc[1]][rc[2] + 2], board[rc[1]][rc[2] + 3],
                                             player)})
      + Cardinality({rc \in RowIdx \X ColIdx :
                     /\ rc[1] <= ROWS - 4
                     /\ isWinningOpportunity(board[rc[1]][rc[2]], board[rc[1] + 1][rc[2]],
                                             board[rc[1] + 2][rc[2]], board[rc[1] + 3][rc[2]],
                                             player)})

checkIfCreatesOpportunity(gameState) ==
  countWinningOpportunities(gameState, "yellow") >= 2

\* The evaluation minimaxMove builds for col, score being the minimax value
\* of moveResult.gameState.
moveEvaluation(gameState, col, moveResult, score) ==
  [column |-> col,
   score |-> score,
   canWin |-> moveResult.gameState.winner = "yellow",
   blocksWin |-> checkIfBlocksWin(gameState, col),
   createsOpportunity |-> checkIfCreatesOpportunity(moveResult.gameState)]

betterMoveLower(bestMove, evaluation) ==
  IF evaluation.score < bestMove.score \/ bestMove.score = -Infinity
    THEN evaluation ELSE bestMove

betterMoveOrEqual(bestMove, evaluation) ==
  IF evaluation.score >= bestMove.score THEN evaluation ELSE bestMove

\* The test of minimaxMove that replaces bestMove.
betterMove(bestMove, evaluation) ==
  IF evaluation.score > bestMove.score THEN evaluation ELSE bestMove

\* The body of the for loop of minimaxMove for col, moveResult being
\* makeMove(gameState, col): continue when it has no position.
minimaxMoveStep(gameState, depth, col, bestMove, moveResult) ==
  IF moveResult.position = NoPos THEN bestMove
  ELSE betterMove(bestMove,
                  moveEvaluation(gameState, col, moveResult,
                                 minimax(moveResult.gameState, depth - 1, FALSE,
                                         -Infinity, Infinity)))

RECURSIVE minimaxMoveLoop(_, _, _, _, _)
\* The for loop of minimaxMove from the i-th valid move on.
minimaxMoveLoop(gameState, depth, validMoves, i, bestMove) ==
  IF i > Len(validMoves) THEN bestMove
  ELSE minimaxMoveLoop(gameState, depth, validMoves, i + 1,
                       minimaxMoveStep(gameState, depth, validMoves[i], bestMove,
                                       makeMove(gameState, validMoves[i])))

\* bestMove before the loop of minimaxMove.
firstMove(validMoves) ==
  [column |-> validMoves[1], score |-> -Infinity, canWin |-> FALSE,
   blocksWin |-> FALSE, createsOpportunity |-> FALSE]

minimaxMove(gameState, depth) ==
  minimaxMoveLoop(gameState, depth, getValidMoves(gameState.board), 1,
                  firstMove(getValidMoves(gameState.board)))

getMoveReasoning(evaluation) ==
  IF evaluation.canWin THEN "Winning move"
  ELSE IF evaluation.blocksWin THEN "Blocking opponent win"
  ELSE IF evaluation.createsOpportunity THEN "Creating winning opportunity"
  ELSE IF evaluation.score > 50 THEN "Strong strategic move"
  ELSE IF evaluation.score > 0 THEN "Good positional move"
  ELSE "Developing move"

centerPreferenceCentreOnly == <<3>>

centerPreferenceAscending == <<0, 1, 2, 3, 4, 5, 6>>

centerPreference == <<3, 2, 4, 1, 5, 0, 6>>

easyWinningMovesCenterFirst(gameState, validMoves) ==
  SelectSeq(centerPreference,
            LAMBDA col : /\ col \in SeqToSet(validMoves)
                         /\ makeMove(gameState, col).gameState.winner = "yellow")

\* The columns for which the first loop of getEasyMove returns.
easyWinningMoves(gameState, validMoves) ==
  SelectSeq(validMoves,
            LAMBDA col : makeMove(gameState, col).gameState.winner = "yellow")

easyBlockingMovesAsYellow(gameState, validMoves) ==
  SelectSeq(validMoves,
            LAMBDA col : makeMove(gameState, col).gameState.winner = "red")

\* The columns for which the second loop of getEasyMove returns.
easyBlockingMoves(gameState, validMoves) ==
  SelectSeq(validMoves,
            LAMBDA col : makeMove([gameState EXCEPT !.currentPlayer = "red"],
                                  col).gameState.winner = "red")

\* Variant of easyCenterMoves that does not test validMoves.includes(col).
easyCenterMovesUnchecked(validMoves) == centerPreference

\* The columns for which the third loop of getEasyMove returns.
easyCenterMoves(validMoves) ==
  SelectSeq(centerPreference, LAMBDA col : col \in SeqToSet(validMoves))

AIMove(column, confidence, reasoning) ==
  [column |-> column, confidence |-> confidence, reasoning |-> reasoning,
   error |-> NoError]

\* What getEasyMove returns, given the columns each of its loops returns for.
easyChoice(wins, blocks, centers, validMoves) ==
  IF wins # <<>> THEN AIMove(Head(wins), 100, "Winning move")
  ELSE IF blocks # <<>> THEN AIMove(Head(blocks), 90, "Blocking opponent win")
  ELSE IF centers # <<>> THEN AIMove(Head(centers), 50, "Center column preference")
  ELSE AIMove(validMoves[1], 30, "Random valid move")

getEasyMove(gameState, validMoves) ==
  easyChoice(easyWinningMoves(gameState, validMoves),
             easyBlockingMoves(gameState, validMoves),
             easyCenterMoves(validMoves), validMoves)

searchDepthOneMore(difficulty) == IF difficulty = "medium" THEN 4 ELSE 6

searchDepth(difficulty) == IF difficulty = "medium" THEN 3 ELSE 5

\* The AIMoveResult getBestMove builds from bestMove.
moveResultOf(bestMove) ==
  AIMove(bestMove.column, bestMove.score, getMoveReasoning(bestMove))

noValidMovesOrOne(validMoves) == Len(validMoves) <= 1

\* The test of getBestMove that throws.
noValidMoves(validMoves) == Len(validMoves) = 0

getBestMove(gameState, difficulty) ==
  IF noValidMoves(getValidMoves(gameState.board))
    THEN [column |-> -1, confidence |-> 0, reasoning |-> "",
          error |-> "No valid moves available"]
  ELSE IF difficulty = "easy"
    THEN getEasyMove(gameState, getValidMoves(gameState.board))
  ELSE moveResultOf(minimaxMove(gameState, searchDepth(difficulty)))

centerColsAscending == <<0, 1, 2, 3, 4, 5, 6>>

centerCols == <<3, 2, 4, 1, 5, 0, 6>>

\* What getAIMove returns, given the columns each of its loops returns for.
simpleChoice(wins, blocks, centers, validMoves) ==
  IF Len(validMoves) = 0 THEN -1
  ELSE IF wins # <<>> THEN Head(wins)
  ELSE IF blocks # <<>> THEN Head(blocks)
  ELSE IF centers # <<>> THEN Head(centers)
  ELSE validMoves[1]

\* getAIMove of game-logic.ts, which the ai-move route and the hook use.
getAIMove(gameState) ==
  simpleChoice(
    SelectSeq(getValidMoves(gameState.board),
              LAMBDA col : makeMove(gameState, col).gameState.winner = "yellow"),
    SelectSeq(getValidMoves(gameState.board),
              LAMBDA col : makeMove([gameState EXCEPT !.currentPlayer = "red"],
                                    col).gameState.winner = "red"),
    SelectSeq(centerCols,
              LAMBDA col : col \in SeqToSet(getValidMoves(gameState.board))),
    getValidMoves(gameState.board))

(***************************************************************************)
(* Openings: move sequences played from createInitialGameState before the  *)
(* explored part of a game starts.                                         *)
(***************************************************************************)
DrawGame ==
  <<5, 4, 5, 0, 6, 2, 4, 5, 5, 0, 4, 1, 1, 0, 4, 5, 6, 5, 3, 1, 1,
    2, 2, 6, 2, 6, 6, 3, 6, 2, 0, 3, 0, 3, 3, 4, 3, 1, 4, 2, 1, 0>>

\* A game without a win before its 42nd move, which completes four in a row.
LastMoveWinsGame ==
  <<5, 6, 1, 3, 6, 1, 4, 4, 5, 1, 0, 3, 1, 5, 2, 0, 0, 6, 1, 0, 4,
    5, 2, 0, 4, 5, 0, 4, 2, 4, 5, 1, 6, 2, 6, 2, 2, 3, 3, 6, 3, 3>>

Openings ==
  { <<>>,
    <<0, 1, 0, 1, 0, 1>>,
    <<3, 3, 3, 3>>,
    <<0, 0, 1, 1, 3, 3, 4, 4>>,
    <<0, 0, 1, 1, 2, 2, 4, 4, 5, 5>>,
    <<0, 0, 1, 1, 2, 2, 4, 4, 5, 5, 6, 6>>,
    <<0, 1, 1, 2, 2, 3, 2, 3, 3, 6>>,
    <<6, 5, 5, 4, 4, 3, 4, 3, 3, 0>>,
    SubSeq(DrawGame, 1, 40),
    SubSeq(LastMoveWinsGame, 1, 40) }

RECURSIVE playFrom(_, _, _)
playFrom(gameState, cols, i) ==
  IF i > Len(cols) THEN gameState
  ELSE LET next == makeMove(gameState, cols[i]).gameState
       IN  IF next.isGameOver \in BOOLEAN THEN playFrom(next, cols, i + 1) ELSE gameState

VARIABLES
  client,      \* "engine": makeMove is called directly; "service": GameService
  gameState,   \* the GameState the client holds (the stored game row)
  input,       \* the state object passed to the last call, as it is after it
  last,        \* the last call: its column, acting player and result
  movesLeft,   \* successful moves still explored
  script,      \* a scripted game: the columns still to play and those played
  ai,          \* the last call of the AI: its arguments and what it returned
  moves,       \* the move records created since the initial state
  query,       \* the last read-only query: its arguments, the board after
               \* it, what it returned and what it returned when repeated
  swapped,     \* the last AI call repeated on the state with colours swapped
  stats,       \* the game_stats rows created since the initial state
  calls,       \* the service calls in flight and what each has read
  room,        \* the stored room row
  games        \* the number of online games RoomService.startGame has created

vars ==
  <<client, gameState, input, last, movesLeft, script, ai, moves, query, swapped, stats, calls, room,
    games>>

NoScript == [todo |-> <<>>, done |-> <<>>]

\* No read-only query yet.
NoQuery == [by |-> "none", board |-> createEmptyBoard, after |-> createEmptyBoard,
            col |-> -1, lastMove |-> NoPos, result |-> FALSE, again |-> FALSE]

\* The record MoveModel.create stores.
MoveRecord(column, player, row) == [column |-> column, player |-> player, row |-> row]

\* The row GameStatsModel.create stores.
StatsRecord(winner, moveCount) == [winner |-> winner, moveCount |-> moveCount]

\* The game_stats rows after an accepted executeMove that left the game in
\* state newState: one more when the game is over.
statsAfter(rows, newState) ==
  IF newState.isGameOver
    THEN Append(rows, StatsRecord(newState.winner, newState.moveCount))
    ELSE rows

\* The number of executeMove calls that run concurrently.
MaxCalls == 2

Callers == 1 .. MaxCalls

\* A call of executeMove that has not started.
IdleCall == [pc |-> "idle", column |-> -1, player |-> Null,
             game |-> createInitialGameState,
             newState |-> createInitialGameState, row |-> -1,
             error |-> NoError]

NoCalls == [p \in Callers |-> IdleCall]

\* The room row RoomModel.create stores for the given players; gameId 0
\* stands for null.
RoomRow(players) == [players |-> players, gameStarted |-> FALSE, gameId |-> 0]

NoRoom == RoomRow(<<>>)

\* A call of joinRoom or startGame that has not started.
IdleRoomCall == [pc |-> "idle", op |-> "", playerName |-> "",
                 updatedPlayers |-> <<>>, gameId |-> 0, error |-> NoError]

\* No call of the AI yet.
NoAI == [by |-> "none", gameState |-> createInitialGameState, difficulty |-> "",
         depth |-> 0, isMaximizing |-> FALSE, column |-> -1, confidence |-> 0,
         reasoning |-> "", error |-> NoError]

NoSwapped == [gameState |-> createInitialGameState, column |-> -1,
              confidence |-> 0, reasoning |-> "", error |-> NoError]

NoCall == [col |-> -1, player |-> Null, position |-> NoPos, error |-> NoError,
           called |-> FALSE]

Init ==
  /\ client \in {"engine", "service"}
  /\ \E o \in Openings : gameState = playFrom(createInitialGameState, o, 1)
  /\ input = gameState
  /\ last = NoCall
  /\ movesLeft = MaxMoves
  /\ script = NoScript
  /\ ai = NoAI
  /\ moves = <<>>
  /\ query = NoQuery
  /\ swapped = NoSwapped
  /\ stats = <<>>
  /\ calls = NoCalls
  /\ room = NoRoom
  /\ games = 0

\* A direct call makeMove(gameState, col); the caller keeps the returned state.
MakeMove(col) ==
  LET res == makeMove(gameState, col) IN
  /\ client = "engine"
  /\ (res.position # NoPos => movesLeft > 0)
  /\ gameState' = res.gameState
  /\ input' = res.input
  /\ last' = [col |-> col, player |-> gameState.currentPlayer,
              position |-> res.position, error |-> NoError, called |-> TRUE]
  /\ movesLeft' = IF res.position # NoPos THEN movesLeft - 1 ELSE movesLeft
  /\ UNCHANGED <<client, script, ai, moves, query, swapped, stats, calls,
               room, games>>

\* GameService.executeMove(gameId, column, player) on the stored game.
ExecuteMove(col, player) ==
  LET res == executeMove(gameState, col, player) IN
  /\ client = "service"
  /\ (res.position # NoPos => movesLeft > 0)
  /\ gameState' = res.gameState
  /\ input' = res.input
  /\ last' = [col |-> col, player |-> player,
              position |-> res.position, error |-> res.error, called |-> TRUE]
  /\ movesLeft' = IF res.position # NoPos THEN movesLeft - 1 ELSE movesLeft
  /\ moves' = IF res.position # NoPos
               THEN Append(moves, MoveRecord(col, player, res.position.row))
               ELSE moves
  /\ stats' = IF res.position # NoPos THEN statsAfter(stats, res.gameState)
               ELSE stats
  /\ UNCHANGED <<client, script, ai, query, swapped, calls, room, games>>

Next ==
  \/ \E col \in ColumnInputs : MakeMove(col)
  \/ \E col \in ColumnInputs, player \in Player : ExecuteMove(col, player)

Spec == Init /\ [][Next]_vars

(***************************************************************************)
(* Scripted games from the empty board: every move of the script is made   *)
(* by the player whose turn it is, directly or through GameService.        *)
(***************************************************************************)
\* Red plays column a four times, Yellow column b in between.
ScenarioA(a, b) == <<a, b, a, b, a, b, a>>

\* Seven moves into column c, then one into column d.
ScenarioB(c, d) == <<c, c, c, c, c, c, c, d>>

TwoColumns == {cd \in ColIdx \X ColIdx : cd[1] # cd[2]}

Scripts ==
  {ScenarioA(ab[1], ab[2]) : ab \in TwoColumns} \cup
  {ScenarioB(cd[1], cd[2]) : cd \in TwoColumns}

InitScript ==
  /\ client \in {"engine", "service"}
  /\ gameState = createInitialGameState
  /\ input = gameState
  /\ last = NoCall
  /\ movesLeft = 0
  /\ \E sc \in Scripts : script = [todo |-> sc, done |-> <<>>]
  /\ ai = NoAI
  /\ moves = <<>>
  /\ query = NoQuery
  /\ swapped = NoSwapped
  /\ stats = <<>>
  /\ calls = NoCalls
  /\ room = NoRoom
  /\ games = 0

\* The next move of the script.
PlayScript ==
  /\ script.todo # <<>>
  /\ LET col == Head(script.todo)
         player == gameState.currentPlayer
         res == IF client = "engine"
                  THEN makeMove(gameState, col) @@ [error |-> NoError]
                  ELSE executeMove(gameState, col, player)
     IN  /\ gameState' = res.gameState
         /\ input' = res.input
         /\ last' = [col |-> col, player |-> player, position |-> res.position,
                     error |-> res.error, called |-> TRUE]
         /\ script' = [todo |-> Tail(script.todo), done |-> Append(script.done, col)]
         /\ moves' = IF client = "service" /\ res.position # NoPos
                      THEN Append(moves, MoveRecord(col, player, res.position.row))
                      ELSE moves
         /\ stats' = IF client = "service" /\ res.position # NoPos
                      THEN statsAfter(stats, res.gameState)
                      ELSE stats
  /\ UNCHANGED <<client, movesLeft, ai, query, swapped, calls, room, games>>

NextScript == PlayScript

SpecScript == InitScript /\ [][NextScript]_vars

(***************************************************************************)
(* Properties of the rules engine.                                         *)
(***************************************************************************)

(***************************************************************************)
(* The AI at Easy difficulty: positions after the openings below and up to *)
(* MaxAIMoves further moves, on which the easy move is asked for.          *)
(***************************************************************************)
MaxAIMoves == 1

EasyOpenings ==
  { <<>>,
    <<4, 0, 4, 1, 5, 2, 5>>,
    <<4, 0, 4, 0, 5, 0, 5, 1, 6, 2, 6>>,
    <<0, 1, 0, 1, 0>>,
    <<2, 0, 2, 0, 2, 1, 5, 1, 5, 6, 5>>,
    <<6, 0, 1, 1, 2, 2, 3, 2, 3, 3, 6>>,
    <<3, 3, 3, 3, 3, 3, 0>>,
    <<3, 3, 3, 3, 3, 3, 2, 2, 2, 2, 2, 2, 6>>,
    SubSeq(DrawGame, 1, 39),
    SubSeq(DrawGame, 1, 41) }

InitEasy ==
  /\ client = "engine"
  /\ \E o \in EasyOpenings : gameState = playFrom(createInitialGameState, o, 1)
  /\ input = gameState
  /\ last = NoCall
  /\ movesLeft = MaxAIMoves
  /\ script = NoScript
  /\ ai = NoAI
  /\ moves = <<>>
  /\ query = NoQuery
  /\ swapped = NoSwapped
  /\ stats = <<>>
  /\ calls = NoCalls
  /\ room = NoRoom
  /\ games = 0

\* The AI has been asked.  It is asked once in a behaviour, at any state:
\* what it returns depends on its arguments only.
Asked == ai.by # "none"

\* AIService.getBestMove(gameState, difficulty) on the state the client holds.
GetBestMove(difficulty) ==
  LET res == getBestMove(gameState, difficulty) IN
  /\ ~Asked
  /\ ai' = [by |-> "getBestMove", gameState |-> gameState,
            difficulty |-> difficulty, depth |-> 0, isMaximizing |-> FALSE,
            column |-> res.column, confidence |-> res.confidence,
            reasoning |-> res.reasoning, error |-> res.error]
  /\ UNCHANGED <<client, gameState, input, last, movesLeft, script, moves,
               query, swapped, stats, calls, room, games>>

\* getAIMove(gameState) on the state the client holds.
GetAIMove ==
  /\ ~Asked
  /\ ai' = [by |-> "getAIMove", gameState |-> gameState, difficulty |-> "",
            depth |-> 0, isMaximizing |-> FALSE,
            column |-> getAIMove(gameState), confidence |-> 0,
            reasoning |-> "", error |-> NoError]
  /\ UNCHANGED <<client, gameState, input, last, movesLeft, script, moves,
               query, swapped, stats, calls, room, games>>

NextEasy ==
  \/ \E col \in ColumnInputs : MakeMove(col)
  \/ GetBestMove("easy")
  \/ GetAIMove

SpecEasy == InitEasy /\ [][NextEasy]_vars

(***************************************************************************)
(* The minimax search: late positions with few open columns, among them    *)
(* boards with Yellow on columns 0-2 of the bottom row and column 3 empty, *)
(* on which getBestMove is asked at every difficulty and minimax for every *)
(* depth up to MaxDepth.                                                   *)
(***************************************************************************)
MaxDepth == 3

\* Yellow holds columns 0-2 of the bottom row, column 3 is empty, and both
\* colours complete four in column 3.
BothThreatenGame ==
  <<4, 0, 6, 6, 6, 2, 5, 6, 5, 4, 0, 0, 2, 0, 2, 6, 0, 5, 4, 1, 4, 4, 2, 1,
    6, 2, 5, 4, 2, 5, 5, 1, 1, 1, 1>>

ForcedWinOpenings ==
  { BothThreatenGame,
    <<6, 2, 6, 4, 5, 6, 5, 1, 2, 6, 1, 4, 5, 5, 5, 0, 0, 0, 4, 1, 1, 0, 1, 4,
      6, 0, 4, 6, 1, 4, 2, 2, 5, 2, 2>>,
    <<5, 5, 4, 0, 4, 4, 6, 2, 2, 2, 5, 0, 6, 6, 6, 1, 4, 0, 1, 6, 5, 6, 1, 2,
      2, 1, 1, 1, 5, 5, 2, 4, 4>>,
    <<4, 0, 6, 6, 6, 2, 5, 6, 5, 4, 0, 0, 2, 0, 2, 6, 0, 4, 0, 1, 4, 4, 4, 1,
      1, 1, 5, 2, 2, 5, 5, 5, 2>>,
    <<4, 0, 6, 6, 6, 2, 5, 6, 5, 4, 0, 0, 2, 0, 2, 1, 4, 2, 5, 1, 1, 4, 4, 2,
      1, 4, 6, 5, 5, 6, 5>>,
    <<6, 0, 5, 4, 4, 4, 0, 5, 6, 6, 6, 0, 0, 2, 6, 5, 2, 0, 5, 1, 5, 2, 5, 1,
      4, 2, 4, 1, 6, 4, 1, 2, 1>> }

MinimaxOpenings ==
  ForcedWinOpenings
  \cup {SubSeq(DrawGame, 1, n) : n \in 33 .. 38}
  \cup {SubSeq(LastMoveWinsGame, 1, n) : n \in 33 .. 38}
  \cup {SubSeq(DrawGame, 1, 41), DrawGame, LastMoveWinsGame}
  \cup {BothThreatenGame \o <<3>>, BothThreatenGame \o <<0, 3>>}

InitMinimax ==
  /\ client = "engine"
  /\ \E o \in MinimaxOpenings : gameState = playFrom(createInitialGameState, o, 1)
  /\ input = gameState
  /\ last = NoCall
  /\ movesLeft = 0
  /\ script = NoScript
  /\ ai = NoAI
  /\ moves = <<>>
  /\ query = NoQuery
  /\ swapped = NoSwapped
  /\ stats = <<>>
  /\ calls = NoCalls
  /\ room = NoRoom
  /\ games = 0

\* AIService.minimax(gameState, depth, isMaximizing, -Infinity, Infinity) on
\* the state the client holds; the value is kept in ai.confidence.
Minimax(depth, isMaximizing) ==
  /\ ~Asked
  /\ ai' = [by |-> "minimax", gameState |-> gameState, difficulty |-> "",
            depth |-> depth, isMaximizing |-> isMaximizing, column |-> -1,
            confidence |-> minimax(gameState, depth, isMaximizing,
                                   -Infinity, Infinity),
            reasoning |-> "", error |-> NoError]
  /\ UNCHANGED <<client, gameState, input, last, movesLeft, script, moves,
               query, swapped, stats, calls, room, games>>

NextMinimax ==
  \/ \E difficulty \in Difficulty : GetBestMove(difficulty)
  \/ GetAIMove
  \/ \E depth \in 0 .. MaxDepth, isMaximizing \in BOOLEAN :
       Minimax(depth, isMaximizing)

SpecMinimax == InitMinimax /\ [][NextMinimax]_vars

(***************************************************************************)
(* The stored game and its move records, changed by GameService and by the *)
(* POST /api/games/[id]/moves route: positions after the openings and up   *)
(* to MaxStoredMoves recorded moves.                                       *)
(***************************************************************************)
MaxStoredMoves == 1

\* The rows a request of the route names: the top row, the bottom row and a
\* row the schema rejects.
RowInputs == {0, ROWS - 1, ROWS}

\* MakeMoveSchema of the route: column 0..6, player red or yellow, row 0..5.
validMoveRequest(column, player, row) ==
  column \in 0 .. 6 /\ player \in Player /\ row \in 0 .. 5

\* What the POST /api/games/[id]/moves handler does with the stored game:
\* the game row after the call, the move record it created, and the error of
\* its response.
postMove(game, column, player, row) ==
  IF game.isGameOver
    THEN [gameState |-> game, position |-> NoPos, error |-> "Game is already over"]
  ELSE IF ~validMoveRequest(column, player, row)
    THEN [gameState |-> game, position |-> NoPos, error |-> "Invalid input"]
  ELSE [gameState |-> [game EXCEPT !.moveCount = game.moveCount + 1,
                                   !.currentPlayer =
                                     IF player = "red" THEN "yellow" ELSE "red"],
        position |-> Pos(row, column),
        error |-> NoError]

InitStored ==
  /\ client \in {"service", "route"}
  /\ \E o \in Openings : gameState = playFrom(createInitialGameState, o, 1)
  /\ input = gameState
  /\ last = NoCall
  /\ movesLeft = MaxStoredMoves
  /\ script = NoScript
  /\ ai = NoAI
  /\ moves = <<>>
  /\ query = NoQuery
  /\ swapped = NoSwapped
  /\ stats = <<>>
  /\ calls = NoCalls
  /\ room = NoRoom
  /\ games = 0

\* A request POST /api/games/[id]/moves with body {column, player, row}.
PostMove(col, player, row) ==
  LET res == postMove(gameState, col, player, row) IN
  /\ client = "route"
  /\ (res.position # NoPos => movesLeft > 0)
  /\ gameState' = res.gameState
  /\ input' = gameState
  /\ last' = [col |-> col, player |-> player,
              position |-> res.position, error |-> res.error, called |-> TRUE]
  /\ movesLeft' = IF res.position # NoPos THEN movesLeft - 1 ELSE movesLeft
  /\ moves' = IF res.position # NoPos
               THEN Append(moves, MoveRecord(col, player, row))
               ELSE moves
  /\ UNCHANGED <<client, script, ai, query, swapped, stats, calls, room,
               games>>

NextStored ==
  \/ \E col \in ColumnInputs, player \in Player : ExecuteMove(col, player)
  \/ \E col \in ColumnInputs, player \in Player, row \in RowInputs :
       PostMove(col, player, row)

SpecStored == InitStored /\ [][NextStored]_vars

(***************************************************************************)
(* The read-only queries, each called twice in a row on the board of a     *)
(* position: the openings of the specifications above and three won games. *)
(***************************************************************************)
WonGames ==
  { <<0, 1, 0, 1, 0, 1, 0>>,
    <<0, 0, 1, 1, 2, 2, 4, 4, 5, 5, 6, 6, 3>>,
    <<0, 1, 1, 2, 2, 3, 2, 3, 3, 6, 3>> }

\* Games whose last piece completes four in a row in two directions at once,
\* one game for each pair of directions, and one in all four.
DoubleWinGames ==
  { <<5, 5, 3, 6, 3, 4, 6, 4, 3, 5, 5, 5, 4, 6, 4, 0, 6, 0, 3>>,
    <<2, 4, 0, 0, 1, 4, 2, 0, 0, 1, 1, 4, 3>>,
    <<4, 5, 3, 5, 3, 4, 1, 5, 5, 5, 4, 4, 2>>,
    <<3, 4, 3, 4, 6, 6, 3, 5, 5, 2, 4, 0, 3>>,
    <<5, 4, 5, 4, 4, 0, 2, 6, 5, 3, 3, 2, 5>>,
    <<6, 0, 3, 3, 2, 4, 1, 1, 3, 3, 1, 1, 0, 2, 3, 2>>,
    <<4, 0, 2, 6, 2, 2, 5, 5, 5, 3, 4, 2, 6, 5, 2, 5, 2, 3, 5, 4, 1, 1, 4, 4,
      1, 1, 0, 0, 4, 3, 1, 0, 0, 1, 0, 3>> }

QueryOpenings ==
  Openings \cup EasyOpenings \cup MinimaxOpenings \cup WonGames
  \cup DoubleWinGames

InitQuery ==
  /\ client = "engine"
  /\ \E o \in QueryOpenings : gameState = playFrom(createInitialGameState, o, 1)
  /\ input = gameState
  /\ last = NoCall
  /\ movesLeft = 0
  /\ script = NoScript
  /\ ai = NoAI
  /\ moves = <<>>
  /\ query = NoQuery
  /\ swapped = NoSwapped
  /\ stats = <<>>
  /\ calls = NoCalls
  /\ room = NoRoom
  /\ games = 0

\* isValidMove(board, col), then the same call on the board as it is then.
IsValidMove(col) ==
  LET board == gameState.board
      after == boardAfterRead(board)
  IN  /\ query.by = "none"
      /\ query' = [by |-> "isValidMove", board |-> board,
                   after |-> boardAfterRead(after), col |-> col,
                   lastMove |-> NoPos,
                   result |-> isValidMove(board, col),
                   again |-> isValidMove(after, col)]
      /\ UNCHANGED <<client, gameState, input, last, movesLeft, script, ai, moves,
               swapped, stats, calls, room, games>>

\* getValidMoves(board), then the same call on the board as it is then.
GetValidMoves ==
  LET board == gameState.board
      after == boardAfterRead(board)
  IN  /\ query.by = "none"
      /\ query' = [by |-> "getValidMoves", board |-> board,
                   after |-> boardAfterRead(after), col |-> -1,
                   lastMove |-> NoPos,
                   result |-> getValidMoves(board),
                   again |-> getValidMoves(after)]
      /\ UNCHANGED <<client, gameState, input, last, movesLeft, script, ai, moves,
               swapped, stats, calls, room, games>>

\* checkWin(board, lastMove), then the same call on the board as it is then.
CheckWin(lastMove) ==
  LET board == gameState.board
      after == boardAfterRead(board)
  IN  /\ query.by = "none"
      /\ query' = [by |-> "checkWin", board |-> board,
                   after |-> boardAfterRead(after), col |-> -1,
                   lastMove |-> lastMove,
                   result |-> checkWin(board, lastMove),
                   again |-> checkWin(after, lastMove)]
      /\ UNCHANGED <<client, gameState, input, last, movesLeft, script, ai, moves,
               swapped, stats, calls, room, games>>

NextQuery ==
  \/ \E col \in ColumnInputs : IsValidMove(col)
  \/ GetValidMoves
  \/ \E row \in RowIdx, col \in ColIdx : CheckWin(Pos(row, col))

SpecQuery == InitQuery /\ [][NextQuery]_vars

(***************************************************************************)
(* The static evaluation of a position: evaluateBoard applied to the state *)
(* the client holds, which is any position of the recorded games.          *)
(***************************************************************************)
EvaluatedGames ==
  UNION {{SubSeq(o, 1, n) : n \in 1 .. Len(o)} : o \in QueryOpenings}

InitEvaluate ==
  /\ client = "engine"
  /\ \E o \in EvaluatedGames \cup {<<>>} :
       gameState = playFrom(createInitialGameState, o, 1)
  /\ input = gameState
  /\ last = NoCall
  /\ movesLeft = 0
  /\ script = NoScript
  /\ ai = NoAI
  /\ moves = <<>>
  /\ query = NoQuery
  /\ swapped = NoSwapped
  /\ stats = <<>>
  /\ calls = NoCalls
  /\ room = NoRoom
  /\ games = 0

\* AIService.evaluateBoard(gameState); the score is kept in ai.confidence.
EvaluateBoard ==
  /\ ~Asked
  /\ ai' = [by |-> "evaluateBoard", gameState |-> gameState, difficulty |-> "",
            depth |-> 0, isMaximizing |-> FALSE, column |-> -1,
            confidence |-> evaluateBoard(gameState),
            reasoning |-> "", error |-> NoError]
  /\ UNCHANGED <<client, gameState, input, last, movesLeft, script, moves,
               query, swapped, stats, calls, room, games>>

NextEvaluate == EvaluateBoard

SpecEvaluate == InitEvaluate /\ [][NextEvaluate]_vars

(***************************************************************************)
(* AIService.getBestMove called on a position and on the same position     *)
(* with the colours of all pieces and of the side to move swapped.         *)
(***************************************************************************)
\* The state with every red piece yellow and every yellow piece red, and the
\* other colour to move.
swapColours(state) ==
  [state EXCEPT
     !.board = [r \in RowIdx |-> [c \in ColIdx |->
                  IF state.board[r][c] = Null THEN Null
                  ELSE otherPlayer(state.board[r][c])]],
     !.currentPlayer = otherPlayer(state.currentPlayer),
     !.winner = IF state.winner = Null THEN Null
                ELSE otherPlayer(state.winner)]

SwappedOpenings ==
  MinimaxOpenings
  \cup {SubSeq(DrawGame, 1, n) : n \in 39 .. 40}
  \cup {SubSeq(LastMoveWinsGame, 1, n) : n \in 39 .. 41}

InitSwapped ==
  /\ client = "engine"
  /\ \E o \in SwappedOpenings : gameState = playFrom(createInitialGameState, o, 1)
  /\ input = gameState
  /\ last = NoCall
  /\ movesLeft = 0
  /\ script = NoScript
  /\ ai = NoAI
  /\ moves = <<>>
  /\ query = NoQuery
  /\ swapped = NoSwapped
  /\ stats = <<>>
  /\ calls = NoCalls
  /\ room = NoRoom
  /\ games = 0

\* AIService.getBestMove(gameState, difficulty) on the state the client
\* holds, and the same call on that state with the colours swapped.
GetBestMoveSwapped(difficulty) ==
  LET res == getBestMove(gameState, difficulty)
      other == getBestMove(swapColours(gameState), difficulty)
  IN  /\ ~Asked
      /\ ai' = [by |-> "getBestMove", gameState |-> gameState,
                difficulty |-> difficulty, depth |-> 0, isMaximizing |-> FALSE,
                column |-> res.column, confidence |-> res.confidence,
                reasoning |-> res.reasoning, error |-> res.error]
      /\ swapped' = [gameState |-> swapColours(gameState),
                     column |-> other.column, confidence |-> other.confidence,
                     reasoning |-> other.reasoning, error |-> other.error]
      /\ UNCHANGED <<client, gameState, input, last, movesLeft, script, moves,
                     query, stats, calls, room, games>>

NextSwapped == \E difficulty \in Difficulty : GetBestMoveSwapped(difficulty)

SpecSwapped == InitSwapped /\ [][NextSwapped]_vars

(***************************************************************************)
(* Concurrent calls of GameService.executeMove on one stored game.  A call *)
(* gives way to the others at each await: after GameModel.findById,       *)
(* MoveModel.create, GameModel.update and GameStatsModel.create.           *)
(***************************************************************************)
ConcurrentOpenings ==
  { <<>>,
    <<0, 1, 0, 1, 0, 1>>,
    <<3, 3, 3, 3, 3>>,
    SubSeq(DrawGame, 1, 41) }

\* The move records of a game played through executeMove.
moveRecords(cols) ==
  [i \in 1 .. Len(cols) |->
     LET before == playFrom(createInitialGameState, SubSeq(cols, 1, i - 1), 1)
     IN  MoveRecord(cols[i], before.currentPlayer,
                    makeMove(before, cols[i]).position.row)]

InitConcurrent ==
  /\ client = "service"
  /\ \E o \in ConcurrentOpenings :
       /\ gameState = playFrom(createInitialGameState, o, 1)
       /\ moves = moveRecords(o)
  /\ input = gameState
  /\ last = NoCall
  /\ movesLeft = 0
  /\ script = NoScript
  /\ ai = NoAI
  /\ query = NoQuery
  /\ swapped = NoSwapped
  /\ stats = <<>>
  /\ calls = NoCalls
  /\ room = NoRoom
  /\ games = 0

\* What call p knows once GameModel.findById has answered with game:
\* validateMove and makeMove run on that row without giving way.
foundGame(game, column, player) ==
  LET res == executeMove(game, column, player)
  IN  [pc |-> IF res.error # NoError THEN "done" ELSE "create",
       column |-> column, player |-> player, game |-> game,
       newState |-> res.gameState,
       row |-> IF res.position = NoPos THEN -1 ELSE res.position.row,
       error |-> res.error]

\* executeMove(gameId, column, player) up to the call of MoveModel.create.
FindGame(p, column, player) ==
  /\ calls[p].pc = "idle"
  /\ calls' = [calls EXCEPT ![p] = foundGame(gameState, column, player)]
  /\ UNCHANGED <<client, gameState, input, last, movesLeft, script, ai, moves,
                 query, swapped, stats, room, games>>

\* MoveModel.create inserts the move record of call p.
CreateMove(p) ==
  /\ calls[p].pc = "create"
  /\ moves' = Append(moves, MoveRecord(calls[p].column, calls[p].player,
                                       calls[p].row))
  /\ calls' = [calls EXCEPT ![p].pc = "update"]
  /\ UNCHANGED <<client, gameState, input, last, movesLeft, script, ai, query,
                 swapped, stats, room, games>>

\* GameModel.update writes the state call p computed over the stored row.
UpdateGame(p) ==
  /\ calls[p].pc = "update"
  /\ gameState' = calls[p].newState
  /\ calls' = [calls EXCEPT
                 ![p].pc = IF calls[p].newState.isGameOver THEN "stats" ELSE "done"]
  /\ UNCHANGED <<client, input, last, movesLeft, script, ai, moves, query,
                 swapped, stats, room, games>>

\* GameStatsModel.create for the game call p has finished.
CreateStats(p) ==
  /\ calls[p].pc = "stats"
  /\ stats' = statsAfter(stats, calls[p].newState)
  /\ calls' = [calls EXCEPT ![p].pc = "done"]
  /\ UNCHANGED <<client, gameState, input, last, movesLeft, script, ai, moves,
                 query, swapped, room, games>>

NextConcurrent ==
  \/ \E p \in Callers, column \in ColumnInputs, player \in Player :
       FindGame(p, column, player)
  \/ \E p \in Callers : CreateMove(p)
  \/ \E p \in Callers : UpdateGame(p)
  \/ \E p \in Callers : CreateStats(p)

SpecConcurrent == InitConcurrent /\ [][NextConcurrent]_vars

(***************************************************************************)
(* Concurrent calls of RoomService.joinRoom and RoomService.startGame on   *)
(* one room.  A call gives way to the others at each await: after          *)
(* RoomModel.findByCode, RoomModel.update and GameModel.create.            *)
(***************************************************************************)
PlayerNames == {"ann", "bob", ""}

\* The error validateJoinConditions throws, or NoError.
validateJoinConditions(roomRow, playerName) ==
  IF roomRow.gameStarted THEN "Game has already started"
  ELSE IF Len(roomRow.players) >= 2 THEN "Room is full"
  ELSE IF playerName \in SeqToSet(roomRow.players)
    THEN "Player name already taken in this room"
  ELSE IF playerName = "" THEN "Player name must be between 1 and 50 characters"
  ELSE NoError

\* The error the tests of startGame throw on the room row read, or NoError.
validateStart(roomRow) ==
  IF Len(roomRow.players) < 2 THEN "Need at least 2 players to start game"
  ELSE IF roomRow.gameStarted THEN "Game has already started"
  ELSE NoError

\* A room as createRoom leaves it, with or without the name of its creator.
InitRoom ==
  /\ client = "service"
  /\ gameState = createInitialGameState
  /\ input = gameState
  /\ last = NoCall
  /\ movesLeft = 0
  /\ script = NoScript
  /\ ai = NoAI
  /\ moves = <<>>
  /\ query = NoQuery
  /\ swapped = NoSwapped
  /\ stats = <<>>
  /\ calls = [p \in Callers |-> IdleRoomCall]
  /\ room \in {RoomRow(<<>>), RoomRow(<<"host">>)}
  /\ games = 0

\* joinRoom(roomCode, playerName) up to the call of RoomModel.update.
FindRoomToJoin(p, playerName) ==
  LET err == validateJoinConditions(room, playerName)
  IN  /\ calls[p].pc = "idle"
      /\ calls' = [calls EXCEPT ![p] =
                     [pc |-> IF err # NoError THEN "done" ELSE "players",
                      op |-> "joinRoom", playerName |-> playerName,
                      updatedPlayers |-> Append(room.players, playerName),
                      gameId |-> 0, error |-> err]]
      /\ UNCHANGED <<client, gameState, input, last, movesLeft, script, ai,
                     moves, query, swapped, stats, room, games>>

\* RoomModel.update(code, {players: updatedPlayers}) of joinRoom, which goes
\* on to startGame when it has written two players.
UpdatePlayers(p) ==
  /\ calls[p].pc = "players"
  /\ room' = [room EXCEPT !.players = calls[p].updatedPlayers]
  /\ calls' = [calls EXCEPT
                 ![p].pc = IF Len(calls[p].updatedPlayers) = 2 THEN "start"
                           ELSE "done"]
  /\ UNCHANGED <<client, gameState, input, last, movesLeft, script, ai, moves,
                 query, swapped, stats, games>>

\* startGame(roomCode), called directly or by joinRoom, up to the call of
\* GameModel.create.
FindRoomToStart(p) ==
  /\ calls[p].pc \in {"idle", "start"}
  /\ calls' = [calls EXCEPT
                 ![p].pc = IF validateStart(room) # NoError THEN "done" ELSE "game",
                 ![p].op = IF calls[p].pc = "idle" THEN "startGame" ELSE @,
                 ![p].error = validateStart(room)]
  /\ UNCHANGED <<client, gameState, input, last, movesLeft, script, ai, moves,
                 query, swapped, stats, room, games>>

\* GameModel.create('online') of startGame.
CreateGame(p) ==
  /\ calls[p].pc = "game"
  /\ games' = games + 1
  /\ calls' = [calls EXCEPT ![p].pc = "started", ![p].gameId = games + 1]
  /\ UNCHANGED <<client, gameState, input, last, movesLeft, script, ai, moves,
                 query, swapped, stats, room>>

\* RoomModel.update(code, {gameId, gameStarted: true}) of startGame.
UpdateRoom(p) ==
  /\ calls[p].pc = "started"
  /\ room' = [room EXCEPT !.gameId = calls[p].gameId, !.gameStarted = TRUE]
  /\ calls' = [calls EXCEPT ![p].pc = "done"]
  /\ UNCHANGED <<client, gameState, input, last, movesLeft, script, ai, moves,
                 query, swapped, stats, games>>

NextRoom ==
  \/ \E p \in Callers, playerName \in PlayerNames : FindRoomToJoin(p, playerName)
  \/ \E p \in Callers : UpdatePlayers(p)
  \/ \E p \in Callers : FindRoomToStart(p)
  \/ \E p \in Callers : CreateGame(p)
  \/ \E p \in Callers : UpdateRoom(p)

SpecRoom == InitRoom /\ [][NextRoom]_vars

Cells == RowIdx \X ColIdx

countOf(board, v) == Cardinality({rc \in Cells : board[rc[1]][rc[2]] = v})

\* The last call returned a position / returned position: null (or threw).
Accepted == last.called /\ last.position # NoPos
Rejected == last.called /\ last.position = NoPos

\* C1: once isGameOver is true, every further move call is rejected and
\* returns the state unchanged, so no move leaves Won or Draw.
C1_GameOverIsFinal ==
  [][gameState.isGameOver =>
       (last'.position = NoPos /\ gameState' = gameState)]_vars

\* No occupied cell of the board has an empty cell below it.
Gravity(board) ==
  \A r \in RowIdx, c \in ColIdx :
    board[r][c] # Null => \A q \in RowIdx : q > r => board[q][c] # Null

\* r is the largest row index whose cell in column c is empty.
LowestEmptyRow(board, c, r) ==
  /\ board[r][c] = Null
  /\ \A q \in RowIdx : board[q][c] = Null => q <= r

\* C2: a successful move into column c puts the mover's colour in the lowest
\* empty row of c and changes no other cell; every reachable board has, in
\* every column, all empty cells above all occupied cells.
C2_GravityDrop ==
  /\ [](Gravity(gameState.board))
  /\ [][last'.position # NoPos =>
          /\ last'.position.col = last'.col
          /\ LowestEmptyRow(gameState.board, last'.col, last'.position.row)
          /\ gameState'.board =
               [gameState.board EXCEPT ![last'.position.row][last'.col] =
                                          gameState.currentPlayer]]_vars

\* A move has landed on top of an earlier piece.
C2_Witness == Accepted /\ last.position.row < ROWS - 1

OnBoard(r, c) == r \in RowIdx /\ c \in ColIdx

\* The cell pos lies in 4 consecutive cells of colour p along direction d,
\* all of them on the board.
InRunOfFour(board, pos, p) ==
  \E d \in {<<0, 1>>, <<1, 0>>, <<1, 1>>, <<1, -1>>}, k \in 0 .. 3 :
    \A i \in 0 .. 3 :
      LET r == pos.row + (i - k) * d[1]
          c == pos.col + (i - k) * d[2]
      IN  OnBoard(r, c) /\ board[r][c] = p

\* C3: after a successful move the winner is the mover's colour exactly when
\* the placed cell lies in a run of at least 4 cells of that colour along a
\* row, a column or a diagonal of the board; otherwise there is no winner.
C3_WinnerIffRunOfFour ==
  Accepted =>
    LET p == gameState.board[last.position.row][last.position.col]
    IN  /\ p = last.player
        /\ InRunOfFour(gameState.board, last.position, p) => gameState.winner = p
        /\ ~InRunOfFour(gameState.board, last.position, p) => gameState.winner = Null

\* A move has just won.
C3_Witness == Accepted /\ gameState.winner = last.player

\* C4: moveCount equals the number of non-empty cells of the board, after
\* successful and after rejected calls.
C4_MoveCountIsPieceCount ==
  gameState.moveCount = Cardinality(Cells) - countOf(gameState.board, Null)

\* A call has been rejected on a board that holds pieces.
C4_Witness == Rejected /\ gameState.moveCount > 0

\* C5: Red has as many pieces as Yellow or one more, and it is Red's turn
\* exactly when the two counts are equal.
C5_TurnsAlternate ==
  LET red == countOf(gameState.board, "red")
      yellow == countOf(gameState.board, "yellow")
  IN  /\ red - yellow \in {0, 1}
      /\ (gameState.currentPlayer = "red") <=> (red = yellow)

\* Yellow has just moved, so that the counts are equal again.
C5_Witness ==
  /\ Accepted /\ last.player = "yellow"
  /\ countOf(gameState.board, "red") = countOf(gameState.board, "yellow")

\* C6: isGameOver holds exactly when there is a winner or a draw, never
\* both; status is won exactly with a winner and draw exactly with isDraw.
C6_GameOverConsistent ==
  LET won == gameState.winner # Null
  IN  /\ gameState.isGameOver <=> (won \/ gameState.isDraw)
      /\ ~(won /\ gameState.isDraw)
      /\ (gameState.status = "won") <=> won
      /\ (gameState.status = "draw") <=> gameState.isDraw

\* The last move has filled the board without a win.
C6_Witness == Accepted /\ gameState.isDraw

LineCells(line) == {line[j] : j \in 1 .. Len(line)}

\* C7: winningLine is present exactly when winner is set; its positions
\* are on the board, hold the winner's colour and are consecutive cells of
\* one line along one of the four directions.
C7_WinningLine ==
  LET line == gameState.winningLine
      S == LineCells(line)
  IN  /\ (Len(line) > 0) <=> (gameState.winner # Null)
      /\ Len(line) > 0 =>
           /\ \A q \in S : /\ OnBoard(q.row, q.col)
                           /\ gameState.board[q.row][q.col] = gameState.winner
           /\ \E d \in {<<0, 1>>, <<1, 0>>, <<1, 1>>, <<1, -1>>}, a \in S :
                S = {Pos(a.row + i * d[1], a.col + i * d[2]) :
                       i \in 0 .. (Cardinality(S) - 1)}

\* A diagonal win has been reported.
C7_Witness ==
  /\ gameState.winner # Null
  /\ \E q1, q2 \in LineCells(gameState.winningLine) :
       q1.row # q2.row /\ q1.col # q2.col

\* C8 as stated: a reported winningLine has exactly 4 positions.
C8_LineHasFourCells ==
  Len(gameState.winningLine) > 0 => Len(gameState.winningLine) = 4

\* The cell i steps from pos along d is on the board and holds colour p.
HoldsAt(board, pos, d, i, p) ==
  /\ OnBoard(pos.row + i * d[1], pos.col + i * d[2])
  /\ board[pos.row + i * d[1]][pos.col + i * d[2]] = p

\* C8 amended: after a winning move winningLine consists of the placed cell
\* and the cells of the winner's colour contiguous with it along the
\* reported direction, at most 3 on each side: between 4 and 7 positions,
\* each listed once, and more than 4 when the run is longer than 4.
C8_LineIsRunThroughPlacedCell ==
  (Accepted /\ gameState.winner # Null) =>
    LET line == gameState.winningLine
        S == LineCells(line)
        pos == last.position
        w == gameState.winner
    IN  /\ Len(line) \in 4 .. 7
        /\ Cardinality(S) = Len(line)
        /\ \E d \in {<<0, 1>>, <<1, 0>>, <<1, 1>>, <<1, -1>>}, k \in 0 .. 3, m \in 0 .. 3 :
             /\ S = {Pos(pos.row + i * d[1], pos.col + i * d[2]) : i \in (-k) .. m}
             /\ (k < 3 => ~HoldsAt(gameState.board, pos, d, -(k + 1), w))
             /\ (m < 3 => ~HoldsAt(gameState.board, pos, d, m + 1, w))

\* A piece has joined two runs of three into a line of 7 reported cells.
C8_Witness == Accepted /\ Len(gameState.winningLine) = 7

\* C9: a call with a column outside [0,6], or with a column whose top cell
\* is occupied, returns no position and the state it was given; the state
\* object passed in still has its old value in every field and cell.
C9_RejectedMoveChangesNothing ==
  [][(last'.col \notin ColIdx \/ gameState.board[0][last'.col] # Null) =>
       /\ last'.position = NoPos
       /\ gameState' = gameState
       /\ input' = gameState]_vars

\* A move into a full column of a running game has been rejected.
C9_Witness ==
  /\ Rejected /\ ~gameState.isGameOver
  /\ last.col \in ColIdx /\ gameState.board[0][last.col] # Null

\* The error kind a caller reads from the result of a rejected call: the
\* engine returns position: null and nothing else, GameService throws a
\* ValidationError with one of its messages.
reportedKind ==
  IF client = "engine" THEN "Rejected"
  ELSE CASE last.error = "Game is already over" -> "GameAlreadyOver"
         [] last.error = "Not your turn" -> "NotPlayersTurn"
         [] last.error = "Column must be between 0 and 6" -> "InvalidColumn"
         [] last.error = "Invalid move - column is full or out of bounds" ->
              "ColumnFullOrOutOfBounds"
         [] OTHER -> "InvalidMove"

\* C10: a rejected move (by the player whose turn it is) reports
\* GameAlreadyOver on a terminal state, InvalidColumn for a column outside
\* [0,6] and ColumnFull for a column in range without an empty slot.
C10_DistinctErrorKinds ==
  (Rejected /\ last.player = gameState.currentPlayer) =>
    reportedKind =
      IF gameState.isGameOver THEN "GameAlreadyOver"
      ELSE IF last.col \notin ColIdx THEN "InvalidColumn"
      ELSE "ColumnFull"

TopRowFull(board) == \A c \in ColIdx : board[0][c] # Null

\* C11: after a successful move isDraw holds exactly when the move did not
\* win and no column has an empty top cell, which is when all 42 cells are
\* occupied; then winner is none and status is draw.  A move that fills the
\* board and completes four in a row gives status won and isDraw false.
C11_DrawIffFullWithoutWin ==
  Accepted =>
    LET won == InRunOfFour(gameState.board, last.position, last.player)
        full == countOf(gameState.board, Null) = 0
    IN  /\ gameState.isDraw <=> (~won /\ TopRowFull(gameState.board))
        /\ TopRowFull(gameState.board) <=> full
        /\ gameState.isDraw => (gameState.winner = Null /\ gameState.status = "draw")
        /\ (full /\ won) => (gameState.status = "won" /\ ~gameState.isDraw)

\* The 42nd move of a game has completed four in a row.
C11_Witness ==
  /\ Accepted /\ gameState.moveCount = ROWS * COLS
  /\ gameState.winner = last.player

\* C12: a successful move from a non-terminal state changes exactly one
\* cell, from empty to the mover's colour, flips currentPlayer, adds 1 to
\* moveCount and sets status to won if it wins, draw if it fills the board
\* without winning and playing otherwise; no move produces status waiting.
C12_SuccessfulMoveEffect ==
  [][(~gameState.isGameOver /\ last'.position # NoPos) =>
       LET changed == {rc \in Cells :
                         gameState'.board[rc[1]][rc[2]] # gameState.board[rc[1]][rc[2]]}
           won == InRunOfFour(gameState'.board, last'.position, gameState.currentPlayer)
           full == countOf(gameState'.board, Null) = 0
       IN  /\ Cardinality(changed) = 1
           /\ \A rc \in changed :
                /\ gameState.board[rc[1]][rc[2]] = Null
                /\ gameState'.board[rc[1]][rc[2]] = gameState.currentPlayer
           /\ gameState'.currentPlayer # gameState.currentPlayer
           /\ gameState'.currentPlayer \in Player
           /\ gameState'.moveCount = gameState.moveCount + 1
           /\ gameState'.status =
                IF won THEN "won" ELSE IF full THEN "draw" ELSE "playing"]_vars

\* A move has been accepted and the game goes on.
C12_Witness == Accepted /\ gameState.status = "playing"

\* C13: isValidMove(board, col) holds exactly when 0 <= col < 7 and the top
\* cell of col is empty; getValidMoves(board) lists exactly those columns,
\* each once, in ascending order, and is empty exactly when the top row is
\* completely occupied.
C13_ValidMoves ==
  LET board == gameState.board
      vm == getValidMoves(board)
  IN  /\ \A col \in ColumnInputs :
           isValidMove(board, col) <=> (col \in ColIdx /\ board[0][col] = Null)
      /\ {vm[i] : i \in 1 .. Len(vm)} = {c \in ColIdx : board[0][c] = Null}
      /\ \A i \in 1 .. (Len(vm) - 1) : vm[i] < vm[i + 1]
      /\ (Len(vm) = 0) <=> TopRowFull(board)

\* Some columns of the board are full and others are not.
C13_Witness ==
  /\ Len(getValidMoves(gameState.board)) \in 1 .. (COLS - 1)
  /\ last.called

IsPrefix(p, q) == Len(p) <= Len(q) /\ SubSeq(q, 1, Len(p)) = p

\* C14: from the empty board, while Red plays column a and Yellow column b
\* (a # b) in turn, no state before the 7th move is game over; after the 7th
\* move winner = red, status = won and winningLine is the four cells of
\* column a in rows 2, 3, 4, 5.
C14_VerticalWinScenario ==
  \A a \in ColIdx : \A b \in ColIdx \ {a} :
    IsPrefix(script.done, ScenarioA(a, b)) =>
      IF Len(script.done) < 7
        THEN ~gameState.isGameOver
        ELSE /\ gameState.winner = "red"
             /\ gameState.status = "won"
             /\ Len(gameState.winningLine) = 4
             /\ LineCells(gameState.winningLine) = {Pos(r, a) : r \in 2 .. 5}

\* The 7th move of the scenario has been played.
C14_Witness ==
  /\ \E a \in ColIdx : \E b \in ColIdx \ {a} : script.done = ScenarioA(a, b)
  /\ gameState.isGameOver

\* From the empty board six moves into column c are accepted on rows 5, 4, 3,
\* 2, 1, 0 without a win; the 7th is refused and leaves the state as it was;
\* a move into another column is accepted afterwards.
C15_ColumnTakesSixPieces ==
  \A c \in ColIdx : \A d \in ColIdx \ {c} :
    LET n == Len(script.done) IN
    (n > 0 /\ IsPrefix(script.done, ScenarioB(c, d))) =>
      /\ n <= 6 => /\ last.position = Pos(ROWS - n, c)
                   /\ gameState.winner = Null
                   /\ ~gameState.isGameOver
      /\ n = 7 => /\ last.position = NoPos
                  /\ gameState = input
                  /\ gameState.moveCount = 6
      /\ n = 8 => /\ last.position = Pos(ROWS - 1, d)
                  /\ gameState.moveCount = 7

\* C15: a column accepts exactly 6 pieces, and the 7th move into it is
\* rejected as ColumnFull with the state unchanged while other columns
\* still accept moves.
C15_SeventhMoveIsColumnFull ==
  /\ C15_ColumnTakesSixPieces
  /\ \A c \in ColIdx : \A d \in ColIdx \ {c} :
       (Len(script.done) = 7 /\ IsPrefix(script.done, ScenarioB(c, d))) =>
         reportedKind = "ColumnFull"

\* Dropping a piece of colour p into column c puts it in a run of four.
WouldCompleteFour(board, c, p) ==
  \E r \in RowIdx :
    /\ LowestEmptyRow(board, c, r)
    /\ InRunOfFour([board EXCEPT ![r][c] = p], Pos(r, c), p)

CompletingColumns(board, p) == {c \in ColIdx : WouldCompleteFour(board, c, p)}

OpenColumns(board) == {c \in ColIdx : board[0][c] = Null}

Lowest(S) == CHOOSE x \in S : \A y \in S : x <= y

\* The last call of the AI was the easy move, by AIService or by getAIMove,
\* and it was made on Yellow's turn in a game that is not over.
EasyAsked ==
  /\ \/ ai.by = "getBestMove" /\ ai.difficulty = "easy"
     \/ ai.by = "getAIMove"
  /\ ai.gameState.currentPlayer = "yellow"
  /\ ~ai.gameState.isGameOver

\* The easy move returned column c, and AIService reported confidence conf
\* (in hundredths).
EasyReturned(c, conf) ==
  /\ ai.column = c
  /\ ai.by = "getBestMove" => ai.confidence = conf /\ ai.error = NoError

\* C18: at Easy, on Yellow's turn, when some column would complete four in a
\* row for Yellow, the lowest-indexed such column is returned with confidence
\* 1.0, whatever Red threatens.
C18_EasyTakesWin ==
  LET wins == CompletingColumns(ai.gameState.board, "yellow")
  IN  EasyAsked /\ wins # {} => EasyReturned(Lowest(wins), 100)

\* Two columns win for Yellow and Red threatens to win as well.
C18_Witness ==
  /\ EasyAsked
  /\ ai.by = "getBestMove"
  /\ Cardinality(CompletingColumns(ai.gameState.board, "yellow")) >= 2
  /\ CompletingColumns(ai.gameState.board, "red") # {}
  /\ ai.confidence = 100

\* C19: at Easy, when no column wins for Yellow and some column would
\* complete four in a row for Red, the lowest-indexed such column is returned
\* with confidence 0.9.
C19_EasyBlocks ==
  LET wins == CompletingColumns(ai.gameState.board, "yellow")
      threats == CompletingColumns(ai.gameState.board, "red")
  IN  EasyAsked /\ wins = {} /\ threats # {} => EasyReturned(Lowest(threats), 90)

\* Red threatens in two columns and Yellow cannot win.
C19_Witness ==
  /\ EasyAsked
  /\ ai.by = "getBestMove"
  /\ CompletingColumns(ai.gameState.board, "yellow") = {}
  /\ Cardinality(CompletingColumns(ai.gameState.board, "red")) >= 2
  /\ ai.confidence = 90

\* C20: at Easy, when no column completes four in a row for either colour,
\* the first valid column of 3, 2, 4, 1, 5, 0, 6 is returned with confidence
\* 0.5.
C20_EasyPrefersCenter ==
  LET board == ai.gameState.board
      order == <<3, 2, 4, 1, 5, 0, 6>>
      first == Lowest({i \in 1 .. 7 : order[i] \in OpenColumns(board)})
  IN  /\ EasyAsked
      /\ CompletingColumns(board, "yellow") = {}
      /\ CompletingColumns(board, "red") = {}
      /\ OpenColumns(board) # {}
      => EasyReturned(order[first], 50)

\* Columns 3 and 2 are full, so the third column of the order is returned.
C20_Witness ==
  /\ EasyAsked
  /\ ai.by = "getBestMove"
  /\ CompletingColumns(ai.gameState.board, "yellow") = {}
  /\ CompletingColumns(ai.gameState.board, "red") = {}
  /\ ai.column = 4
  /\ ai.confidence = 50

Highest(S) == CHOOSE x \in S : \A y \in S : x >= y

RECURSIVE FullMinimax(_, _, _)
\* Minimax over every valid move of every node down to the given depth, with
\* the values minimax gives its leaves and nothing cut off.
FullMinimax(state, depth, isMaximizing) ==
  IF state.winner = "yellow" THEN 1000 + depth
  ELSE IF state.winner = "red" THEN -1000 - depth
  ELSE IF state.isDraw \/ depth = 0 THEN evaluateBoard(state)
  ELSE LET values == {FullMinimax(makeMove(state, c).gameState, depth - 1,
                                  ~isMaximizing) : c \in OpenColumns(state.board)}
       IN  IF isMaximizing THEN Highest(values) ELSE Lowest(values)

\* The value of column c at the root of a search of the given depth.
FullRootValue(state, depth, c) ==
  FullMinimax(makeMove(state, c).gameState, depth - 1, FALSE)

\* The first column of the highest value at the root.
FullRootColumn(state, depth) ==
  LET value == [c \in OpenColumns(state.board) |-> FullRootValue(state, depth, c)]
      best == Highest({value[c] : c \in OpenColumns(state.board)})
  IN  Lowest({c \in OpenColumns(state.board) : value[c] = best})

\* C16: minimax called with alpha = -Infinity and beta = Infinity returns the
\* value of full-width minimax on the same state, depth and maximizing flag,
\* and at Medium and Hard the column returned is the one full-width minimax
\* chooses at the root.
C16_AlphaBetaIsMinimax ==
  /\ ai.by = "minimax" =>
       ai.confidence = FullMinimax(ai.gameState, ai.depth, ai.isMaximizing)
  /\ ai.by = "getBestMove" /\ ai.difficulty # "easy" /\ ai.error = NoError =>
       ai.column = FullRootColumn(ai.gameState,
                                  IF ai.difficulty = "medium" THEN 3 ELSE 5)

\* A search of the largest depth from a position with several valid moves
\* and no win within the horizon for either side.
C16_Witness ==
  /\ ai.by = "minimax"
  /\ ai.depth = MaxDepth
  /\ ~ai.gameState.isGameOver
  /\ Cardinality(OpenColumns(ai.gameState.board)) >= 3
  /\ ai.confidence < 1000
  /\ ai.confidence > -1000
  /\ ai.confidence = FullMinimax(ai.gameState, ai.depth, ai.isMaximizing)

\* getBestMove was asked on a board where Yellow is to move, holds columns
\* 0, 1 and 2 of the bottom row, and the bottom cell of column 3 is empty.
ForcedWinAsked ==
  /\ ai.by = "getBestMove"
  /\ ai.gameState.currentPlayer = "yellow"
  /\ ~ai.gameState.isGameOver
  /\ \A c \in 0 .. 2 : ai.gameState.board[ROWS - 1][c] = "yellow"
  /\ ai.gameState.board[ROWS - 1][3] = Null

\* C17 as stated: on such a board getBestMove returns column 3 at Easy,
\* Medium and Hard.
C17_ForcedWinReturnsColumn3 ==
  ForcedWinAsked => ai.error = NoError /\ ai.column = 3

\* C17 amended: on such a board getBestMove returns, at Easy, Medium and
\* Hard, the lowest-indexed column that completes four in a row for Yellow:
\* column 3, unless a piece in column 0, 1 or 2 completes four as well.
C17_ForcedWinReturnsLowestWin ==
  LET wins == CompletingColumns(ai.gameState.board, "yellow")
  IN  ForcedWinAsked =>
        /\ ai.error = NoError
        /\ 3 \in wins
        /\ ai.column = Lowest(wins)
        /\ wins \cap (0 .. 2) = {} => ai.column = 3

\* Hard returns column 3 on such a board, where Red threatens as well.
C17_Witness ==
  /\ ForcedWinAsked
  /\ ai.difficulty = "hard"
  /\ CompletingColumns(ai.gameState.board, "red") # {}
  /\ ai.column = 3

\* getBestMove was asked at Medium or Hard and returned a move.
SearchAsked ==
  /\ ai.by = "getBestMove"
  /\ ai.difficulty \in {"medium", "hard"}
  /\ ai.error = NoError

PliesOf(difficulty) == IF difficulty = "medium" THEN 3 ELSE 5

\* C21: at Medium and Hard the returned column is a valid one whose minimax
\* value is the highest of all root children, every valid column of lower
\* index has a strictly lower value, and the value is what is reported.
C21_FirstMaximalRootChild ==
  LET state == ai.gameState
      depth == PliesOf(ai.difficulty)
      value == [c \in OpenColumns(state.board) |-> FullRootValue(state, depth, c)]
  IN  SearchAsked =>
        /\ ai.column \in OpenColumns(state.board)
        /\ \A c \in OpenColumns(state.board) : value[c] <= value[ai.column]
        /\ \A c \in OpenColumns(state.board) :
             c < ai.column => value[c] < value[ai.column]
        /\ ai.confidence = value[ai.column]

\* Two root children share the highest value and the lower column, which is
\* not the first valid column, is returned.
C21_Witness ==
  LET state == ai.gameState
      depth == PliesOf(ai.difficulty)
      value == [c \in OpenColumns(state.board) |-> FullRootValue(state, depth, c)]
  IN  /\ SearchAsked
      /\ \E c \in OpenColumns(state.board) :
           c > ai.column /\ value[c] = value[ai.column]
      /\ \E c \in OpenColumns(state.board) :
           c < ai.column /\ value[c] < value[ai.column]

\* C22: getBestMove fails with 'No valid moves available', at every
\* difficulty and without a column, exactly when no column has an empty top
\* cell; otherwise it returns a valid column.  getAIMove returns -1, which
\* the ai-move route reports with the same message, in exactly that case.
C22_FailsIffNoValidMove ==
  LET open == OpenColumns(ai.gameState.board)
  IN  /\ ai.by = "getBestMove" =>
           IF open = {}
             THEN ai.error = "No valid moves available" /\ ai.column = -1
             ELSE ai.error = NoError /\ ai.column \in open
      /\ ai.by = "getAIMove" =>
           IF open = {} THEN ai.column = -1 ELSE ai.column \in open

\* Hard was asked on a full board and failed.
C22_Witness ==
  /\ ai.by = "getBestMove"
  /\ ai.difficulty = "hard"
  /\ OpenColumns(ai.gameState.board) = {}
  /\ ai.error = "No valid moves available"

\* A call whose acting player is not the stored currentPlayer is rejected:
\* no move record is created and the stored game stays as it is.
WrongTurnRejected ==
  last'.player # gameState.currentPlayer =>
    /\ last'.position = NoPos
    /\ last'.error # NoError
    /\ moves' = moves
    /\ gameState' = gameState

\* C23: GameService.executeMove and the POST /api/games/[id]/moves handler
\* both reject a move whose acting player differs from the stored
\* currentPlayer, create no move record and leave the stored game unchanged.
C23_WrongTurnRejected == [][WrongTurnRejected]_vars

\* The part of C23 that holds: GameService.executeMove rejects such a move
\* with 'Not your turn' while the game is not over.
C23_ServiceRejectsWrongTurn ==
  [][client = "service" =>
       /\ WrongTurnRejected
       /\ (last'.player # gameState.currentPlayer /\ ~gameState.isGameOver
           => last'.error = "Not your turn")]_vars

NoWin == ROWS * COLS + 1

RECURSIVE PliesToWin(_, _, _)
\* The number of plies in which Yellow wins from state within depth plies,
\* the maximizing side choosing the quickest win and the minimizing side the
\* slowest; NoWin when the other side can avoid it.
PliesToWin(state, depth, isMaximizing) ==
  IF state.winner = "yellow" THEN 0
  ELSE IF state.winner = "red" \/ state.isDraw \/ depth = 0 THEN NoWin
  ELSE LET plies == {PliesToWin(makeMove(state, c).gameState, depth - 1,
                                ~isMaximizing) : c \in OpenColumns(state.board)}
           next == IF isMaximizing THEN Lowest(plies) ELSE Highest(plies)
       IN  IF next = NoWin THEN NoWin ELSE next + 1

\* C25: minimax scores a node Yellow has won 1000 + depth and a node Red has
\* won -1000 - depth, also at depth 0; a drawn node, or any other node at
\* depth 0, scores evaluateBoard.  So a search that finds a forced win for
\* Yellow in k plies returns 1000 + depth - k: the fewer plies, the higher.
C25_TerminalScores ==
  LET state == ai.gameState
      plies == PliesToWin(state, ai.depth, ai.isMaximizing)
  IN  ai.by = "minimax" =>
        /\ state.winner = "yellow" => ai.confidence = 1000 + ai.depth
        /\ state.winner = "red" => ai.confidence = -1000 - ai.depth
        /\ state.winner = Null /\ (state.isDraw \/ ai.depth = 0) =>
             ai.confidence = evaluateBoard(state)
        /\ plies # NoWin => ai.confidence = 1000 + ai.depth - plies
        /\ plies = NoWin => ai.confidence < 1000

\* A search of depth MaxDepth that finds a win for Yellow in 3 plies and none
\* in fewer.
C25_Witness ==
  /\ ai.by = "minimax"
  /\ ai.depth = MaxDepth
  /\ PliesToWin(ai.gameState, ai.depth, ai.isMaximizing) = 3
  /\ ai.confidence = 1000 + MaxDepth - 3

\* A node Red has won, searched at depth 0.
C25_WitnessRedWonAtDepth0 ==
  /\ ai.by = "minimax"
  /\ ai.depth = 0
  /\ ai.gameState.winner = "red"
  /\ ai.confidence = -1000

RECURSIVE PlyValue(_, _, _)
\* The value of a position that is the given number of moves after the root
\* of a search looking ahead horizon plies: a position that is not over is
\* evaluated statically exactly when it is horizon moves after the root, and
\* before that Yellow's moves take the highest value and Red's the lowest.
PlyValue(state, movesAfterRoot, horizon) ==
  IF state.winner = "yellow" THEN 1000 + (horizon - movesAfterRoot)
  ELSE IF state.winner = "red" THEN -1000 - (horizon - movesAfterRoot)
  ELSE IF state.isDraw THEN evaluateBoard(state)
  ELSE IF movesAfterRoot = horizon THEN evaluateBoard(state)
  ELSE LET values == {PlyValue(makeMove(state, c).gameState, movesAfterRoot + 1,
                               horizon) : c \in OpenColumns(state.board)}
       IN  IF state.currentPlayer = "yellow" THEN Highest(values)
           ELSE Lowest(values)

\* The value at the root, whose own moves are the first ply.
PlyRootValue(state, horizon) ==
  Highest({PlyValue(makeMove(state, c).gameState, 1, horizon) :
             c \in OpenColumns(state.board)})

C26_WitnessHard ==
  /\ SearchAsked
  /\ ai.gameState.currentPlayer = "yellow"
  /\ ai.difficulty = "hard"
  /\ ai.confidence # PlyRootValue(ai.gameState, 4)
  /\ ai.confidence # PlyRootValue(ai.gameState, 6)

\* The four directions of a line: right, down, down-right, down-left.
LineDirections == {<<0, 1>>, <<1, 0>>, <<1, 1>>, <<1, -1>>}

\* The four cells from <<r, c>> in direction d.
WindowCells(r, c, d) == {<<r + i * d[1], c + i * d[2]>> : i \in 0 .. 3}

\* Every length-4 window of the board in direction d, as its set of cells.
WindowsOf(d) ==
  {w \in {WindowCells(rc[1], rc[2], d) : rc \in Cells} : w \subseteq Cells}

AllWindows == UNION {WindowsOf(d) : d \in LineDirections}

\* The pieces of a colour in a window.
InWindow(board, w, v) == Cardinality({rc \in w : board[rc[1]][rc[2]] = v})

\* The windows holding n pieces of player and none of the other colour.
OnlyWindows(board, player, other, n) ==
  Cardinality({w \in AllWindows : /\ InWindow(board, w, player) = n
                                  /\ InWindow(board, w, other) = 0})

ReferenceScore(board) ==
  50 * OnlyWindows(board, "yellow", "red", 3)
  + 10 * OnlyWindows(board, "yellow", "red", 2)
  + OnlyWindows(board, "yellow", "red", 1)
  - 50 * OnlyWindows(board, "red", "yellow", 3)
  - 10 * OnlyWindows(board, "red", "yellow", 2)
  - OnlyWindows(board, "red", "yellow", 1)
  + 3 * Cardinality({r \in RowIdx : board[r][3] = "yellow"})
  - 3 * Cardinality({r \in RowIdx : board[r][3] = "red"})

\* C27: evaluateBoard is the reference sum over the 69 windows (24
\* horizontal, 21 vertical, 12 on each diagonal), each visited once: +50, +10,
\* +1 for a window of 3, 2, 1 yellow pieces and no red one, -50, -10, -1 for
\* red, nothing otherwise, plus 3 per yellow and minus 3 per red piece in
\* column 3.
C27_EvaluateBoardIsReference ==
  /\ Cardinality(AllWindows) = 69
  /\ Cardinality(WindowsOf(<<0, 1>>)) = 24
  /\ Cardinality(WindowsOf(<<1, 0>>)) = 21
  /\ Cardinality(WindowsOf(<<1, 1>>)) = 12
  /\ Cardinality(WindowsOf(<<1, -1>>)) = 12
  /\ Cardinality(evaluatedWindows) = 69
  /\ {WindowCells(w[1], w[2], <<w[3], w[4]>>) : w \in evaluatedWindows} = AllWindows
  /\ ai.by = "evaluateBoard" => ai.confidence = ReferenceScore(ai.gameState.board)

\* A board evaluated with windows of three yellow pieces, of three red
\* pieces, of both colours and of four pieces of one colour, and with pieces
\* of both colours in column 3.
C27_Witness ==
  LET board == ai.gameState.board
  IN  /\ ai.by = "evaluateBoard"
      /\ OnlyWindows(board, "yellow", "red", 3) > 0
      /\ OnlyWindows(board, "red", "yellow", 3) > 0
      /\ OnlyWindows(board, "red", "yellow", 4) > 0
      /\ \E w \in AllWindows : /\ InWindow(board, w, "yellow") > 0
                               /\ InWindow(board, w, "red") > 0
      /\ \E r \in RowIdx : board[r][3] = "yellow"
      /\ \E r \in RowIdx : board[r][3] = "red"
      /\ ai.confidence # 0

\* The cells of the unbroken run of one colour through cell along the d-th
\* direction (1 horizontal, 2 vertical, 3 down-right, 4 down-left), at most
\* three cells to either side.
RunCells(board, cell, d) ==
  LET step == << <<0, 1>>, <<1, 0>>, <<1, 1>>, <<1, -1>> >>[d]
      at(k) == <<cell.row + k * step[1], cell.col + k * step[2]>>
      same(k) == /\ at(k) \in Cells
                 /\ board[at(k)[1]][at(k)[2]] = board[cell.row][cell.col]
      Between(k) == IF k >= 0 THEN 0 .. k ELSE k .. 0
  IN  {at(k) : k \in {k \in -3 .. 3 : \A j \in Between(k) : same(j)}}

\* The directions in which cell lies in a run of four or more.
WinningDirections(board, cell) ==
  {d \in 1 .. 4 : Cardinality(RunCells(board, cell, d)) >= WINNING_LENGTH}

\* checkWin was called on a piece that is the top one of its column.
CheckWinOnTopPiece ==
  /\ query.by = "checkWin"
  /\ query.board[query.lastMove.row][query.lastMove.col] # Null
  /\ \A r \in RowIdx :
       r < query.lastMove.row => query.board[r][query.lastMove.col] = Null

\* C28: when the piece completes four in a row in more than one direction,
\* checkWin reports a win whose line is the run of the first such direction
\* in the order horizontal, vertical, down-right, down-left, and no cell of
\* another direction.
C28_FirstWinningDirection ==
  LET winning == WinningDirections(query.board, query.lastMove)
      first == Lowest(winning)
  IN  CheckWinOnTopPiece /\ Cardinality(winning) > 1 =>
        /\ query.result.isWin
        /\ {<<p.row, p.col>> : p \in SeqToSet(query.result.winningLine)}
             = RunCells(query.board, query.lastMove, first)

\* A piece that completes both diagonals and neither a row nor a column.
C28_Witness ==
  /\ CheckWinOnTopPiece
  /\ WinningDirections(query.board, query.lastMove) = {3, 4}
  /\ query.result.isWin

\* A piece that completes all four directions at once.
C28_WitnessAllFour ==
  /\ CheckWinOnTopPiece
  /\ WinningDirections(query.board, query.lastMove) = 1 .. 4
  /\ Len(query.result.winningLine) = WINNING_LENGTH

\* The windows of the given directions that hold at least atLeast yellow
\* pieces, at least one empty cell and no red piece.
OpenWindows(board, dirs, atLeast) ==
  Cardinality({w \in UNION {WindowsOf(d) : d \in dirs} :
                 /\ InWindow(board, w, "yellow") >= atLeast
                 /\ InWindow(board, w, Null) >= 1
                 /\ InWindow(board, w, "red") = 0})

\* The rationale of the move into col with the given score, createsThreats
\* telling whether the move creates multiple winning threats.
RationaleOf(state, col, score, createsThreats) ==
  IF col \in CompletingColumns(state.board, "yellow") THEN "Winning move"
  ELSE IF col \in CompletingColumns(state.board, "red") THEN "Blocking opponent win"
  ELSE IF createsThreats THEN "Creating winning opportunity"
  ELSE IF score > 50 THEN "Strong strategic move"
  ELSE IF score > 0 THEN "Good positional move"
  ELSE "Developing move"

\* Medium or Hard was asked for Yellow's move in a game that is not over.
SearchAskedForYellow ==
  /\ SearchAsked
  /\ ai.gameState.currentPlayer = "yellow"
  /\ ~ai.gameState.isGameOver

\* C29: at Medium and Hard the rationale is that of the first matching rule:
\* winning move, blocking move, multiple winning threats (the board after the
\* move has at least 2 windows, in any direction, of 3 yellow pieces, 1 empty
\* cell and no red piece), score > 50, score > 0, developing move.
C29_RationaleByFirstRule ==
  LET state == ai.gameState
      after == makeMove(state, ai.column).gameState.board
  IN  SearchAskedForYellow =>
        ai.reasoning = RationaleOf(state, ai.column, ai.confidence,
                                   OpenWindows(after, LineDirections, 3) >= 2)

\* The rationale with the threat rule as countWinningOpportunities counts:
\* at least 2 horizontal or vertical windows of 2 or more yellow pieces, at
\* least 1 empty cell and no red piece.
C29_RationaleAsCounted ==
  LET state == ai.gameState
      after == makeMove(state, ai.column).gameState.board
  IN  SearchAskedForYellow =>
        ai.reasoning = RationaleOf(state, ai.column, ai.confidence,
                                   OpenWindows(after, {<<0, 1>>, <<1, 0>>}, 2) >= 2)

HasRunOfFour(board) ==
  \E rc \in Cells :
    /\ board[rc[1]][rc[2]] # Null
    /\ InRunOfFour(board, Pos(rc[1], rc[2]), board[rc[1]][rc[2]])

C31_ServiceNoRunWithoutWinner ==
  (client = "service" /\ gameState.winner = Null) => ~HasRunOfFour(gameState.board)

\* C32: moveCount is the number of pieces on the board and never exceeds
\* 42; a state with moveCount = 42 is game over and accepts no further move;
\* a drawn state has moveCount = 42.  So a sequence of accepted moves reaches
\* a state that is game over within 42 moves.
C32_PlayEndsWithin42Moves ==
  /\ gameState.moveCount = ROWS * COLS - countOf(gameState.board, Null)
  /\ gameState.moveCount <= ROWS * COLS
  /\ gameState.moveCount = ROWS * COLS =>
       /\ gameState.isGameOver
       /\ getValidMoves(gameState.board) = <<>>
  /\ gameState.isDraw => gameState.moveCount = ROWS * COLS

\* The 42nd move has been accepted and has drawn the game.
C32_Witness ==
  /\ Accepted
  /\ gameState.moveCount = ROWS * COLS
  /\ gameState.isDraw

\* The 42nd move has been accepted and has won the game.
C32_WitnessWon ==
  /\ Accepted
  /\ gameState.moveCount = ROWS * COLS
  /\ gameState.winner # Null

\* The AI was asked for a column, by getAIMove or by getBestMove at any
\* difficulty, on a board with an open column.
ColumnAsked ==
  /\ ai.by \in {"getBestMove", "getAIMove"}
  /\ OpenColumns(ai.gameState.board) # {}

\* C33: when the board has a valid move, the column returned by getAIMove and
\* by getBestMove at Easy, Medium and Hard is one of getValidMoves, and
\* makeMove with it returns a position.
C33_ReturnedColumnIsValid ==
  ColumnAsked =>
    /\ ai.error = NoError
    /\ ai.column \in SeqToSet(getValidMoves(ai.gameState.board))
    /\ makeMove(ai.gameState, ai.column).position # NoPos

\* Column 0 is full, and a search chose a column that is not the first valid
\* one.
C33_Witness ==
  /\ ColumnAsked
  /\ ai.by = "getBestMove"
  /\ ai.difficulty = "hard"
  /\ 0 \notin OpenColumns(ai.gameState.board)
  /\ ai.column # Lowest(OpenColumns(ai.gameState.board))

\* The easy cascade chose a column on a board whose centre column is full.
C33_WitnessEasy ==
  /\ ColumnAsked
  /\ ai.by = "getAIMove" \/ ai.difficulty = "easy"
  /\ 3 \notin OpenColumns(ai.gameState.board)
  /\ CompletingColumns(ai.gameState.board, "yellow") = {}
  /\ CompletingColumns(ai.gameState.board, "red") = {}

\* getBestMove was asked for Red's move in a game that is not over, and
\* again with the colours swapped.
AskedForRed ==
  /\ ai.by = "getBestMove"
  /\ ai.gameState.currentPlayer = "red"
  /\ ~ai.gameState.isGameOver
  /\ swapped.gameState = swapColours(ai.gameState)

\* C34: for a state with Red to move and the state with the colours of all
\* pieces and of the side to move swapped, getBestMove returns the same
\* column, confidence and rationale at every difficulty.
C34_ColourIndependent ==
  AskedForRed =>
    /\ swapped.column = ai.column
    /\ swapped.confidence = ai.confidence
    /\ swapped.reasoning = ai.reasoning

\* No call of executeMove is between its read and its last write.
Quiescent == \A p \in Callers : calls[p].pc \in {"idle", "done"}

\* Call p has returned without an error.
Succeeded(p) == calls[p].pc = "done" /\ calls[p].error = NoError

\* C35: whatever the interleaving of the calls, once they have returned the
\* number of move records of the game is its stored moveCount, and no two
\* calls that succeeded read the same state of the game.
C35_RecordsMatchMoveCount ==
  Quiescent =>
    /\ Len(moves) = gameState.moveCount
    /\ \A p \in Callers, q \in Callers :
         (p # q /\ Succeeded(p) /\ Succeeded(q)) => calls[p].game # calls[q].game

\* When the calls run one after the other, each reading what the one before
\* it wrote, the records and moveCount agree.
C35_OneAfterTheOther ==
  (Quiescent /\ \A p \in Callers, q \in Callers :
                  (p # q /\ Succeeded(p) /\ Succeeded(q)) =>
                     calls[p].game # calls[q].game)
    => Len(moves) = gameState.moveCount

\* joinRoom has returned to caller p without an error.
Joined(p) ==
  /\ calls[p].op = "joinRoom"
  /\ calls[p].pc = "done"
  /\ calls[p].error = NoError

\* C36: whatever the interleaving of the joinRoom and startGame calls on a
\* room, at most one game is created for it, and every player whose joinRoom
\* has returned successfully is in the stored player list.
C36_OneGameAndJoinedPlayersStored ==
  /\ games <= 1
  /\ \A p \in Callers :
       Joined(p) => calls[p].playerName \in SeqToSet(room.players)

\* The two parts of C36 on their own.
C36_AtMostOneGame == games <= 1

C36_JoinedPlayersStored ==
  \A p \in Callers : Joined(p) => calls[p].playerName \in SeqToSet(room.players)

\* C37: in every state with a winner, the winner is not the player to move,
\* the positions of winningLine hold the winner's colour, one of them is the
\* top piece of its column, and when the last call placed a piece, that piece
\* is the winner's and its cell is one of the positions of winningLine.
C37_WinnerMadeLastMove ==
  gameState.winner # Null =>
    /\ gameState.winner # gameState.currentPlayer
    /\ \A pos \in SeqToSet(gameState.winningLine) :
         gameState.board[pos.row][pos.col] = gameState.winner
    /\ \E pos \in SeqToSet(gameState.winningLine) :
         \A r \in RowIdx : r < pos.row => gameState.board[r][pos.col] = Null
    /\ Accepted =>
         /\ last.player = gameState.winner
         /\ last.position \in SeqToSet(gameState.winningLine)
         /\ gameState.board[last.position.row][last.position.col] = gameState.winner

\* Yellow has won with a piece that is neither end of the winning line.
C37_Witness ==
  /\ Accepted
  /\ gameState.winner = "yellow"
  /\ gameState.currentPlayer = "red"
  /\ last.position # gameState.winningLine[1]
  /\ last.position # gameState.winningLine[Len(gameState.winningLine)]

\* C38: on a board with a valid move, the column getAIMove returns for a
\* state is the column getBestMove returns for that state at Easy, whichever
\* of the two was called.
C38_GetAIMoveIsEasyMove ==
  OpenColumns(ai.gameState.board) # {} =>
    /\ ai.by = "getAIMove" =>
         ai.column = getBestMove(ai.gameState, "easy").column
    /\ (ai.by = "getBestMove" /\ ai.difficulty = "easy") =>
         ai.column = getAIMove(ai.gameState)

\* getAIMove was asked on Yellow's turn where Yellow has no winning column and
\* Red threatens to win, and returned a column that is not the centre one.
C38_Witness ==
  /\ ai.by = "getAIMove"
  /\ ai.gameState.currentPlayer = "yellow"
  /\ CompletingColumns(ai.gameState.board, "yellow") = {}
  /\ ai.column \in CompletingColumns(ai.gameState.board, "red")
  /\ ai.column # 3

\* getAIMove was asked where neither colour can win at once and the centre
\* column is full.
C38_WitnessCentre ==
  /\ ai.by = "getAIMove"
  /\ CompletingColumns(ai.gameState.board, "yellow") = {}
  /\ CompletingColumns(ai.gameState.board, "red") = {}
  /\ 3 \notin OpenColumns(ai.gameState.board)
  /\ ai.column \in OpenColumns(ai.gameState.board)

\* The line runs through the placed cell, which is its k-th position, in
\* steps of d: the j-th position is the placed cell plus (j - k) times d.
RunsThrough(line, placed, k, d) ==
  /\ k \in 1 .. Len(line)
  /\ \A j \in 1 .. Len(line) :
       line[j] = Pos(placed.row + (j - k) * d[1], placed.col + (j - k) * d[2])

\* C39: the positions of a reported winningLine follow each other by one of
\* the deltas (0,1), (1,0), (1,1), (1,-1), the cells on the negative side of
\* the placed cell before it and the cells on the positive side after it.
C39_LineOrderedAlongDirection ==
  (Accepted /\ gameState.winner # Null) =>
    \E d \in LineDirections, k \in 1 .. Len(gameState.winningLine) :
      RunsThrough(gameState.winningLine, last.position, k, d)

\* The placed cell has cells of the line on both of its sides.
C39_Witness ==
  /\ Accepted
  /\ gameState.winner # Null
  /\ \E d \in LineDirections, k \in 2 .. Len(gameState.winningLine) - 1 :
       RunsThrough(gameState.winningLine, last.position, k, d)

\* The placed cell is the first of a line that runs down-left.
C39_WitnessDownLeft ==
  /\ Accepted
  /\ gameState.winner # Null
  /\ RunsThrough(gameState.winningLine, last.position, 1, <<1, -1>>)

\* C40: the centre-preference lists hold all seven columns, and on a board
\* with a valid move getBestMove at Easy returns with confidence 1.0, 0.9 or
\* 0.5, never with the fallback result of confidence 0.3.
C40_EasyFallbackUnreachable ==
  /\ SeqToSet(centerPreference) = ColIdx
  /\ SeqToSet(centerCols) = ColIdx
  /\ (/\ ai.by = "getBestMove"
      /\ ai.difficulty = "easy"
      /\ OpenColumns(ai.gameState.board) # {}) =>
       /\ ai.confidence \in {100, 90, 50}
       /\ ai.reasoning # "Random valid move"
       /\ ai.reasoning \in {"Winning move", "Blocking opponent win",
                            "Center column preference"}

\* Easy was asked on a board whose only open column is an outer one, the last
\* of the centre-preference list to be tried, and returned it with 0.5.
C40_Witness ==
  /\ ai.by = "getBestMove"
  /\ ai.difficulty = "easy"
  /\ OpenColumns(ai.gameState.board) = {ai.column}
  /\ ai.column \in {0, 6}
  /\ ai.confidence = 50

====
